---- MODULE Spec2Model ----
(***************************************************************************)
(* Job engine of the lead scraper: the job state machine driven by the     *)
(* HTTP handlers of app/routers/jobs.py and by the pipeline task           *)
(* _run_job of app/scraper/engine.py, over the relational store of         *)
(* app/db/models.py.                                                       *)
(*                                                                         *)
(* Granularity: asyncio runs the code between two awaits atomically, and   *)
(* every await of the modelled code is a database operation or an external *)
(* call.  One action of the model is therefore one awaited operation       *)
(* together with the synchronous code that follows it up to the next       *)
(* await.  A handler with several awaits is several actions, so that other *)
(* coroutines interleave exactly where the event loop lets them.           *)
(*                                                                         *)
(* The store is the set of committed rows.  A database operation takes     *)
(* effect in the step that awaits it.  The session of a request lives for  *)
(* one request and reads the committed rows.  The session of _run_job      *)
(* lives as long as the task and is created with expire_on_commit=False    *)
(* (db/database.py:6): it keeps the ScrapeJob instance it loaded, and a    *)
(* later SELECT of the same row returns that instance with the attributes  *)
(* it has, until the instance is expired (rollback) or refreshed.  The     *)
(* status attribute of that instance is part of the task's locals.  The    *)
(* worker thread of the driver and the other instances of the session are  *)
(* not part of the model.                                                  *)
(***************************************************************************)
EXTENDS Integers, Sequences, FiniteSets, TLC

\* ---------------------------------------------------------------- bounds
MaxRequests == 3      \* HTTP requests issued to the job router in one run
MaxContacts == 3      \* contacts extracted for one batch of companies
MaxKeys == 3          \* keys configured in SCRAPER_SERP_API_KEY
MaxPosts == 4         \* requests sent to the search API in one run
MaxRetries == 3       \* settings.max_retries
TokenUnits == 2       \* parts a token of the bucket is divided into
MaxCalls == 2         \* calls of get by one HttpClient
MaxKnown == 2         \* contacts of a company that have an email
MaxLinks == 2         \* links in the reply to the official-website search

\* ------------------------------------------------------------ value sets
Domains == {"acme.com", "bolt.io"}
Emails == {"", "jane.doe@acme.com", "bob@acme.com"}
Names == {"", "Jane Doe"}
States == {"", "CA"}
Locations == {"", "Texas"}
Profiles == {"profile-1", "profile-2"}   \* directory pages a site: search finds
DirSources == <<"thomasnet", "kompass", "industrynet">>

Status == {"pending", "running", "paused", "completed", "failed", "cancelled"}
Terminal == {"completed", "failed", "cancelled"}
Kinds == {"start", "pause", "resume", "cancel"}

VARIABLES
    status,       \* ScrapeJob.status of each job row
    config,       \* ScrapeJob.job_type, config["location"], config["sources"],
                  \* the queries generate_queries yields for its industry,
                  \* web: the domains the searches of this run can return,
                  \* and patterns: settings.enable_email_pattern_matching
    counters,     \* ScrapeJob.total_urls .. errors_count, as persisted
    logs,         \* messages of the job's ScrapeLog rows
    nWarn,        \* number of the job's ScrapeLog rows of level warning or error
    companies,    \* rows of table companies
    contacts,     \* rows of table contacts
    nextId,       \* autoincrement primary key of the next inserted row
    activeJobs,   \* engine._active_jobs (keys)
    pc,           \* the await each pipeline task is suspended at
    loc,          \* local variables of each pipeline task
    mustCancel,   \* task.cancel() was called and CancelledError is not raised yet
    req,          \* per request kind: the stage of the request in flight
    nreq,         \* requests issued so far
    last,         \* the last response a handler returned (history)
    hist,         \* history of each job, kept for the properties
    up,           \* the startup of the process (main.lifespan) has completed
    nKeys,        \* len(SerperKeyManager._keys)
    keyIndex,     \* SerperKeyManager._index
    exhausted,    \* SerperKeyManager._exhausted
    got,          \* what the last call of get_key returned (history)
    call,         \* per caller of serper_search: the invocation in progress
    nposts,       \* requests sent to the search API so far
    op,           \* the last operation on the key manager or the API (history)
    http,         \* the call of HttpClient.get in progress
    gate,         \* the RateLimiter and RobotsChecker of each HttpClient, and
                  \* the calls that pass through them
    fn            \* the call in progress of a function that is specified on
                  \* its own: its arguments, its position, its results

vars == <<status, config, counters, logs, nWarn, companies, contacts,
          nextId, activeJobs, pc, loc, mustCancel, req, nreq, last, hist, up,
          nKeys, keyIndex, exhausted, got, call, nposts, op, http, gate, fn>>

dbJob == <<status, counters, logs, nWarn>>
dbRows == <<companies, contacts, nextId>>
reqVars == <<req, nreq, last>>
keyVars == <<nKeys, keyIndex, exhausted, got, call, nposts, op>>

\* What the handlers and the steps of the pipeline task leave alone: the
\* configuration, the process start, and the clients of the search API and
\* of the web sites, whose calls the specifications of the jobs abstract by
\* their results.
cfgVars == <<config, up, keyVars, http, gate, fn>>

jobVars == <<status, config, counters, logs, nWarn, companies, contacts, nextId,
             activeJobs, pc, loc, mustCancel, req, nreq, last, hist, up>>

\* what a call of the key manager or of HttpClient.get leaves alone
restVars == <<jobVars, gate, fn>>

\* what the rate gate and the robots gate leave alone
gateRest == <<jobVars, keyVars, http, fn>>

\* what a function specified on its own leaves alone
fnRest == <<jobVars, keyVars, http, gate>>

\* no such call
NoFn == [pc |-> "none"]

\* ------------------------------------------------------- the store
NULL == "NULL"

\* ScrapeJob counter columns default to 0 (models.py:80-84)
ZeroCounters == [total_urls |-> 0, processed_urls |-> 0, companies_found |-> 0,
                 contacts_found |-> 0, errors_count |-> 0]

\* locals of _run_job and of the phase it is in
InitLoc == [total |-> 0, processed |-> 0, found |-> 0, errors |-> 0,
            contactsFound |-> 0, seen |-> {}, pending |-> <<>>, qi |-> 0,
            di |-> 0, bi |-> 0, saved |-> 0, inserted |-> FALSE, ret |-> "none",
            batch |-> <<>>, phase |-> "none", cur |-> "none", nres |-> 0,
            savedState |-> "", todo |-> <<>>,
            jobStatus |-> "none"]   \* job.status of the session's ScrapeJob

InitHist == [excs |-> 0,            \* per-item exceptions raised so far
             cancelRunning |-> FALSE, \* a cancel request that read "running" has returned
             cancelActive |-> FALSE,  \* a cancel request succeeded while the task was active
             dupInsert |-> FALSE,     \* create_company met a concurrently inserted domain
             startActive |-> FALSE,   \* engine.start_job was called for a registered job
             saves |-> <<>>]          \* the domains _save_company was called with

\* job_service.add_log: one ScrapeLog row; level warning/error rows are counted
AddLog(j, level, msg) ==
    /\ logs' = [logs EXCEPT ![j] = @ \cup {msg}]
    /\ nWarn' = [nWarn EXCEPT ![j] = IF level \in {"warning", "error"} THEN @ + 1 ELSE @]

UpdateProgress_AllColumns(j, cols) ==
    counters' = [counters EXCEPT ![j] =
                    [c \in DOMAIN @ |-> IF c \in DOMAIN cols THEN cols[c] ELSE 0]]

\* job_service.update_job_progress: writes exactly the columns that are passed
UpdateProgress(j, cols) ==
    counters' = [counters EXCEPT ![j] =
                    [c \in DOMAIN @ |-> IF c \in DOMAIN cols THEN cols[c] ELSE @[c]]]

\* job_service.update_job_status: unconditional write of the status column
UpdateJobStatus(j, s) == status' = [status EXCEPT ![j] = s]

\* the task leaves the event loop: the done callback pops it from _active_jobs
TaskEnds(j, how) ==
    /\ pc' = [pc EXCEPT ![j] = how]
    /\ activeJobs' = activeJobs \ {j}
    /\ mustCancel' = [mustCancel EXCEPT ![j] = FALSE]

Alive(j) == pc[j] \notin {"none", "done", "killed"}

\* ------------------------------------------- scraper/serper_keys.py
\* A key is named by its position in _keys, counted from 1; NoKey is the
\* empty string get_key returns.
NoKey == 0
KeyAt(i) == i + 1
IndexOf(k) == k - 1

\* SerperKeyManager.active_keys:35-37
ActiveKeys(exh) == nKeys - Cardinality(exh)

\* SerperKeyManager._rotate:66-73: the loop from index i that started at start
RECURSIVE RotateLoop(_, _, _)
RotateLoop(i, start, exh) ==
    LET n == (i + 1) % nKeys
    IN IF n \notin exh THEN n
       ELSE IF n = start THEN n
       ELSE RotateLoop(n, start, exh)

\* SerperKeyManager._rotate:61-73: the index after the call
Rotate(i, exh) ==
    IF Cardinality(exh) >= nKeys THEN i ELSE RotateLoop(i, i, exh)

\* SerperKeyManager.get_key:39-47: the index after the call and the key
\* returned
GetKeyFrom(i, exh) ==
    IF nKeys = 0 THEN [index |-> i, key |-> NoKey]
    ELSE LET n == IF i \in exh THEN Rotate(i, exh) ELSE i
         IN [index |-> n, key |-> IF n < nKeys THEN KeyAt(n) ELSE NoKey]

\* SerperKeyManager.mark_exhausted:49-59: the index and the exhausted set
\* after the call
MarkFrom(i, exh) ==
    IF nKeys = 0 THEN [index |-> i, exh |-> exh]
    ELSE [index |-> Rotate(i, exh \cup {i}), exh |-> exh \cup {i}]

\* the public operations of the key manager, called by a collaborator
GetKey ==
    /\ LET g == GetKeyFrom(keyIndex, exhausted)
       IN keyIndex' = g.index /\ got' = g.key
    /\ op' = "get_key"
    /\ UNCHANGED <<restVars, http, nKeys, exhausted, call, nposts>>

MarkExhausted ==
    /\ LET m == MarkFrom(keyIndex, exhausted)
       IN keyIndex' = m.index /\ exhausted' = m.exh
    /\ op' = "mark_exhausted"
    /\ UNCHANGED <<restVars, http, nKeys, got, call, nposts>>

\* SerperKeyManager.reset:75-79
Reset ==
    /\ exhausted' = {}
    /\ keyIndex' = 0
    /\ op' = "reset"
    /\ UNCHANGED <<restVars, http, nKeys, got, call, nposts>>

\* the callers of serper_search: GoogleSearchScraper._search_serper
\* (google_search.py:80) passes the location of the job,
\* directory_utils.find_company_website (directory_utils.py:92) does not
Callers == {"google", "lookup"}

CallArgs(c) ==
    IF c = "google"
    THEN {[q |-> "q1", num |-> 10, gl |-> "us", location |-> l] : l \in Locations}
    ELSE {[q |-> "official website", num |-> 3, gl |-> "us", location |-> ""]}

NoArgs == [q |-> "", num |-> 0, gl |-> "", location |-> ""]

\* req: the arguments of the call of the collaborator; cur: the arguments of
\* the invocation in progress; key: the key its request carries; retries: the
\* depth of the recursion; resp: the response the call received last
IdleCall == [pc |-> "idle", req |-> NoArgs, cur |-> NoArgs, key |-> NoKey,
             retries |-> 0, resp |-> "none", result |-> "none"]

\* what the search API answers: HTTP 200, 400 without and with the word
\* "credit" in the body, 403, 429, 500, and no answer (timeout, network error)
Responses == {"200", "400", "400credit", "403", "429", "500", "error"}

\* the search API is idle after SerperKeyManager.__init__:18-25 with one of
\* the numbers of keys of ns
KeyManagerNew(ns) ==
    /\ nKeys \in ns
    /\ keyIndex = 0
    /\ exhausted = {}
    /\ got = NoKey
    /\ call = [c \in Callers |-> IdleCall]
    /\ nposts = 0
    /\ op = "none"

\* serper_search returns r to the collaborator
Return(c, outer, args, n, resp, r) ==
    call' = [call EXCEPT ![c] = [pc |-> "idle", req |-> outer, cur |-> args,
                                 key |-> NoKey, retries |-> n, resp |-> resp,
                                 result |-> r]]

\* serper_search:116-134, one invocation up to its await of client.post, with
\* the key manager at index i and exhausted set exh: none without keys or
\* without an active key, otherwise the request is sent with the key of
\* get_key
Invoke(c, outer, args, n, resp, i, exh) ==
    LET g == GetKeyFrom(i, exh)
    IN IF nKeys = 0 \/ ActiveKeys(exh) = 0
       THEN /\ Return(c, outer, args, n, resp, "none")
            /\ keyIndex' = i
            /\ UNCHANGED nposts
       ELSE /\ keyIndex' = g.index
            /\ IF g.key = NoKey
               THEN Return(c, outer, args, n, resp, "none") /\ UNCHANGED nposts
               ELSE /\ call' = [call EXCEPT ![c] =
                                   [pc |-> "posting", req |-> outer, cur |-> args,
                                    key |-> g.key, retries |-> n, resp |-> resp,
                                    result |-> "none"]]
                    /\ nposts' = nposts + 1

\* a collaborator calls serper_search(query, num, gl, location)
SearchCall(c) ==
    /\ call[c].pc = "idle"
    /\ nposts < MaxPosts
    /\ \E args \in CallArgs(c) : Invoke(c, args, args, 0, "none", keyIndex, exhausted)
    /\ op' = "search"
    /\ UNCHANGED <<restVars, http, nKeys, exhausted, got>>

\* serper_search:135-152, the response to client.post.  Lines 136-142 handle
\* 403, 429 and a 400 with "credit" in the body; a 400 without it falls
\* through to raise_for_status (143), whose HTTPStatusError is handled at
\* 145-150 like the former.  Both mark the current key exhausted and, when a
\* key is left, return serper_search(query, num, gl).  200 returns the JSON;
\* every other status and every other exception returns none.
SearchResponse(c) ==
    /\ call[c].pc = "posting"
    /\ \E kind \in Responses :
          IF kind \in {"400", "400credit", "403", "429"}
          THEN /\ nposts < MaxPosts
               /\ LET m == MarkFrom(keyIndex, exhausted)
                  IN /\ exhausted' = m.exh
                     /\ IF ActiveKeys(m.exh) > 0
                        THEN Invoke(c, call[c].req,
                                    [call[c].cur EXCEPT !.location = ""],
                                    call[c].retries + 1, kind, m.index, m.exh)
                        ELSE /\ Return(c, call[c].req, call[c].cur, call[c].retries,
                                       kind, "none")
                             /\ keyIndex' = m.index
                             /\ UNCHANGED nposts
          ELSE /\ Return(c, call[c].req, call[c].cur, call[c].retries, kind,
                         IF kind = "200" THEN "json" ELSE "none")
               /\ UNCHANGED <<keyIndex, exhausted, nposts>>
    /\ op' = "response"
    /\ UNCHANGED <<restVars, http, nKeys, got>>

\* the sources that send their request to the search API themselves, with
\* settings.serp_api_key as the key: ThomasNetScraper.search
\* (thomasnet.py:21-54), thomasnet._find_company_website (185-210),
\* IndustryNetScraper.search (industrynet.py:21-50) and
\* industrynet._find_company_website (163-185)
DirectSources == {"thomasnet", "industrynet"}

DirectPost(c) ==
    /\ nKeys > 0
    /\ nposts < MaxPosts
    /\ nposts' = nposts + 1
    /\ op' = c
    /\ UNCHANGED <<restVars, http, nKeys, keyIndex, exhausted, got, call>>

KeyManager == GetKey \/ MarkExhausted \/ Reset

\* ------------------------------------------- scraper/http_client.py
\* the URLs a caller passes: one that parses, one on which urlparse raises
\* ValueError (robots.py:33, rate_limiter.py:38), and one that urlparse
\* accepts and the HTTP library rejects when the request is built
Urls == {"valid", "unparsable", "rejected"}

\* what the await of client.get (line 52) and raise_for_status (53) yield for
\* a request that was sent: a response status, httpx.RequestError, or
\* asyncio.TimeoutError
Outcomes == {"200", "403", "404", "410", "429", "500", "request_error", "timeout"}

\* lines 55-64: the outcomes after which the loop goes on; 403, 404 and 410
\* return none at once (56-57), a 2xx response is returned (53-54)
Retryable(o) == o \notin {"200", "403", "404", "410"}

NoCall == [pc |-> "idle", url |-> "valid", respect_robots |-> FALSE, max_retries |-> 0,
           attempt |-> 0, gets |-> 0, waits |-> 0, allowed |-> TRUE,
           last |-> "none", result |-> "pending"]

\* HttpClient.get is called on a client built from the settings (20-28)
NewCall(u, r, m) == [NoCall EXCEPT !.pc = "robots", !.url = u, !.respect_robots = r,
                                   !.max_retries = m]

\* the call ends: it returns the response or none, or an exception leaves it
HttpEnds(r) == http' = [r EXCEPT !.pc = "done"]

\* 34-37: the robots gate, when enabled
HttpRobots ==
    /\ http.pc = "robots"
    /\ IF ~http.respect_robots THEN http' = [http EXCEPT !.pc = "rate"]
       ELSE IF http.url = "unparsable" THEN HttpEnds([http EXCEPT !.result = "raised"])
       ELSE \E a \in BOOLEAN :
               IF a THEN http' = [http EXCEPT !.pc = "rate"]
               ELSE HttpEnds([http EXCEPT !.allowed = FALSE, !.result = "none"])
    /\ UNCHANGED <<restVars, keyVars>>

\* 39 and 41: the rate gate, then the loop is entered when max_retries > 0
HttpRate ==
    /\ http.pc = "rate"
    /\ IF http.url = "unparsable" THEN HttpEnds([http EXCEPT !.result = "raised"])
       ELSE IF http.max_retries > 0 THEN http' = [http EXCEPT !.pc = "get"]
       ELSE HttpEnds([http EXCEPT !.result = "none"])
    /\ UNCHANGED <<restVars, keyVars>>

\* 42-64: one attempt.  An exception that is neither HTTPStatusError nor
\* RequestError nor TimeoutError has no handler and leaves get.
HttpGet ==
    /\ http.pc = "get"
    /\ IF http.url = "rejected" THEN HttpEnds([http EXCEPT !.result = "raised"])
       ELSE \E o \in Outcomes :
               LET r == [http EXCEPT !.gets = @ + 1, !.last = o]
               IN IF o = "200" THEN HttpEnds([r EXCEPT !.result = "response"])
                  ELSE IF ~Retryable(o) THEN HttpEnds([r EXCEPT !.result = "none"])
                  ELSE IF http.attempt < http.max_retries - 1
                       THEN http' = [r EXCEPT !.pc = "backoff"]
                       ELSE HttpEnds([r EXCEPT !.result = "none"])
    /\ UNCHANGED <<restVars, keyVars>>

\* 58-60 and 62-64: asyncio.sleep(2 ** attempt + jitter), then the next attempt
HttpBackoff ==
    /\ http.pc = "backoff"
    /\ http' = [http EXCEPT !.pc = "get", !.waits = @ + 1, !.attempt = @ + 1]
    /\ UNCHANGED <<restVars, keyVars>>

\* ------------------------------ scraper/rate_limiter.py, scraper/robots.py
\* Every source adapter builds an HttpClient of its own (google_search.py:42,
\* thomasnet.py:19, industrynet.py:19, kompass.py:24), every HttpClient a
\* RateLimiter and a RobotsChecker of its own (http_client.py:21-25), and a
\* job builds its adapters when its discovery phase starts (engine.py:237,
\* 342-346).  A client is used by the one task that built it, one call after
\* the other; the clients of two jobs run concurrently.
GateClients == {"job1", "job2"}
GateDomains == {"a.com", "b.com"}

\* _fetch_robots (robots.py:18-30): the response of the robots.txt request
RobotsReplies == {"200", "non200", "error"}

\* 24-29: a 200 response is parsed into rules, anything else sets allow_all
Parsed(o) == IF o = "200" THEN "rules" ELSE "allow_all"

\* RobotFileParser.can_fetch on a cached parser: true under allow_all, as the
\* rules say otherwise
CanFetch(kind) == IF kind = "allow_all" THEN {TRUE} ELSE BOOLEAN

\* TokenBucket._refill (rate_limiter.py:14-18), e the tokens the elapsed time
\* is worth
Refill(t, e) == IF t + e > TokenUnits THEN TokenUnits ELSE t + e

\* RateLimiter.__init__ (31-35) and RobotsChecker.__init__ (11-12) of every
\* client: no lock, no bucket, no cached rules.  _get_bucket makes a bucket
\* with tokens = capacity (44, 11): a bucket not made yet is a full one.
NoGate ==
    [pc |-> [c \in GateClients |-> "idle"],
     dom |-> [c \in GateClients |-> "a.com"],
     checked |-> [c \in GateClients |-> FALSE],
     acquired |-> [c \in GateClients |-> FALSE],
     calls |-> [c \in GateClients |-> 0],
     respect |-> TRUE,
     locks |-> [c \in GateClients |-> [d \in GateDomains |-> FALSE]],
     tokens |-> [c \in GateClients |-> [d \in GateDomains |-> TokenUnits]],
     cache |-> [c \in GateClients |-> [d \in GateDomains |-> "none"]],
     fresh |-> [c \in GateClients |-> [d \in GateDomains |-> FALSE]],
     reply |-> [c \in GateClients |-> "none"],
     fetches |-> [d \in GateDomains |-> 0],
     issued |-> {}]

GateFrame == UNCHANGED gateRest

\* HttpClient.get(url) is called (http_client.py:33-39): with the robots gate
\* enabled is_allowed comes first, otherwise the rate gate
GateCall(c) ==
    /\ gate.pc[c] = "idle"
    /\ gate.calls[c] < MaxCalls
    /\ \E d \in GateDomains :
          gate' = [gate EXCEPT !.pc[c] = IF gate.respect THEN "is_allowed" ELSE "lock",
                               !.dom[c] = d, !.checked[c] = FALSE,
                               !.acquired[c] = FALSE, !.calls[c] = @ + 1,
                               !.reply[c] = "none"]
    /\ GateFrame

\* http_client.py:35-37 on the value of is_allowed
Allowed(g, c, a) ==
    IF a THEN [g EXCEPT !.pc[c] = "lock", !.checked[c] = TRUE]
    ELSE [g EXCEPT !.pc[c] = "idle"]

\* is_allowed up to its await (robots.py:32-42): a cached parser younger than
\* CACHE_TTL answers, otherwise robots.txt is fetched
IsAllowed(c) ==
    /\ gate.pc[c] = "is_allowed"
    /\ LET d == gate.dom[c]
       IN IF gate.cache[c][d] # "none" /\ gate.fresh[c][d]
          THEN \E a \in CanFetch(gate.cache[c][d]) : gate' = Allowed(gate, c, a)
          ELSE gate' = [gate EXCEPT !.pc[c] = "fetch_robots"]
    /\ GateFrame

\* the fetch returns (robots.py:43-45, 18-30): the parser is cached with the
\* time of the return and answers
FetchRobots(c) ==
    /\ gate.pc[c] = "fetch_robots"
    /\ LET d == gate.dom[c]
       IN \E o \in RobotsReplies : \E a \in CanFetch(Parsed(o)) :
             gate' = Allowed([gate EXCEPT !.cache[c][d] = Parsed(o),
                                          !.fresh[c][d] = TRUE,
                                          !.reply[c] = o,
                                          !.fetches[d] = @ + 1], c, a)
    /\ GateFrame

\* RateLimiter.acquire, 53-55: the domain's lock of this limiter is taken
RateLock(c) ==
    /\ gate.pc[c] = "lock"
    /\ ~gate.locks[c][gate.dom[c]]
    /\ gate' = [gate EXCEPT !.pc[c] = "bucket", !.locks[c][gate.dom[c]] = TRUE]
    /\ GateFrame

\* TokenBucket.acquire, 21-27: refill, then take a token or sleep
BucketAcquire(c) ==
    /\ gate.pc[c] = "bucket"
    /\ LET d == gate.dom[c]
       IN \E e \in 0 .. TokenUnits :
             LET t == Refill(gate.tokens[c][d], e)
             IN IF t >= TokenUnits
                THEN gate' = [gate EXCEPT !.tokens[c][d] = t - TokenUnits,
                                          !.pc[c] = "jitter"]
                ELSE gate' = [gate EXCEPT !.tokens[c][d] = t, !.pc[c] = "sleep"]
    /\ GateFrame

\* 27: the sleep ends and the loop goes round
BucketSleep(c) ==
    /\ gate.pc[c] = "sleep"
    /\ gate' = [gate EXCEPT !.pc[c] = "bucket"]
    /\ GateFrame

\* 59-60 and the end of the async with: the jitter sleep ends, the lock is
\* released, acquire returns
Jitter(c) ==
    /\ gate.pc[c] = "jitter"
    /\ gate' = [gate EXCEPT !.pc[c] = "get", !.acquired[c] = TRUE,
                            !.locks[c][gate.dom[c]] = FALSE]
    /\ GateFrame

\* a GET sent to a site by get or by _fetch_page, with what came before it in
\* its call
Sent(who, chk, acq) == [by |-> who, checked |-> chk, acquired |-> acq]

\* http_client.py:41-66: an attempt of the loop sends the GET; the loop goes
\* on to the next attempt (after the backoff) or get returns
GateGet(c) ==
    /\ gate.pc[c] = "get"
    /\ \E again \in BOOLEAN :
          gate' = [gate EXCEPT !.issued = @ \cup {Sent("get", gate.checked[c],
                                                       gate.acquired[c])},
                               !.pc[c] = IF again THEN "get" ELSE "idle"]
    /\ GateFrame

\* _phase_enrichment._fetch_page (engine.py:474-486): the contact, about and
\* team pages of a company are fetched with an httpx client of their own
FetchPage ==
    /\ gate' = [gate EXCEPT !.issued = @ \cup {Sent("fetch_page", FALSE, FALSE)}]
    /\ GateFrame

\* 24 hours pass: every cached parser is older than CACHE_TTL (robots.py:9,
\* 39), and a new window of 24 hours begins
DayPasses ==
    /\ \E c \in GateClients : \E d \in GateDomains : gate.fresh[c][d]
    /\ gate' = [gate EXCEPT !.fresh = [c \in GateClients |-> [d \in GateDomains |-> FALSE]],
                            !.fetches = [d \in GateDomains |-> 0]]
    /\ GateFrame

\* --------------------------- scraper/extractors/email_discoverer.py
\* Names and local parts are sequences of characters; an address is its
\* local part and its domain, the text on either side of the "@".
Address(local, domain) == [local |-> local, dom |-> domain]

\* the lower-case letters and the str.lower() of the characters in use
LowerLetters == {"a", "b", "d", "e", "j", "n", "o"}
Lower(c) == CASE c = "J" -> "j" [] c = "D" -> "d" [] OTHER -> c
LowerAll(s) == [i \in DOMAIN s |-> Lower(s[i])]

IsLetter(c) == c \in LowerLetters

\* _clean_name (85-86): re.sub(r"[^a-z]", "", name.lower())
CleanName(name) == SelectSeq(LowerAll(name), IsLetter)

\* PATTERNS (6-16), a format string as the sequence of its fields and
\* literal characters, the confidence in hundredths
PATTERNS ==
    << [p |-> <<"first", ".", "last">>, conf |-> 70],
       [p |-> <<"first", "last">>, conf |-> 60],
       [p |-> <<"f", "last">>, conf |-> 60],
       [p |-> <<"first", "_", "last">>, conf |-> 50],
       [p |-> <<"first">>, conf |-> 40],
       [p |-> <<"last">>, conf |-> 30],
       [p |-> <<"f", ".", "last">>, conf |-> 50],
       [p |-> <<"last", ".", "first">>, conf |-> 40],
       [p |-> <<"last", "f">>, conf |-> 40] >>

\* str.format of line 79: last_initial is last[0], or "" for an empty lastc
RECURSIVE Format(_, _, _, _)
Format(p, firstc, lastc, f) ==
    IF p = <<>> THEN <<>>
    ELSE LET x == Head(p)
             v == CASE x = "first" -> firstc
                    [] x = "last" -> lastc
                    [] x = "f" -> f
                    [] x = "last_initial" -> (IF lastc = <<>> THEN <<>> ELSE <<lastc[1]>>)
                    [] OTHER -> <<x>>
         IN v \o Format(Tail(p), firstc, lastc, f)

\* _apply_pattern (77-82): every field of these format strings is given, so
\* the handler of KeyError and IndexError is never entered
FormatAddress(p, firstc, lastc, f, domain) == Address(Format(p, firstc, lastc, f), domain)

Has(s, c) == \E i \in DOMAIN s : s[i] = c
Count(s, c) == Cardinality({i \in DOMAIN s : s[i] = c})

NoPattern == [found |-> FALSE, p |-> <<>>, conf |-> 0]
Pattern(p, c) == [found |-> TRUE, p |-> p, conf |-> c]

\* discover_email_pattern (19-45)
DiscoverEmailPattern(known_emails, domain) ==
    LET isAt(e) == e.dom = domain
        domain_emails == SelectSeq(known_emails, isAt)
        local_parts == [i \in DOMAIN domain_emails |-> LowerAll(domain_emails[i].local)]
        sample == local_parts[1]
    IN IF domain_emails = <<>> THEN NoPattern
       ELSE IF \E i \in DOMAIN local_parts : Has(local_parts[i], ".")
       THEN IF Count(sample, ".") = 1 /\ Len(sample) >= 2 /\ sample[2] = "."
            THEN Pattern(<<"f", ".", "last">>, 70)
            ELSE Pattern(<<"first", ".", "last">>, 80)
       ELSE IF \E i \in DOMAIN local_parts : Has(local_parts[i], "_")
       THEN Pattern(<<"first", "_", "last">>, 70)
       ELSE IF Len(sample) <= 2 THEN Pattern(<<"f", "last_initial">>, 50)
       ELSE Pattern(<<"first", "last">>, 60)

Candidate(e, c) == [email |-> e, conf |-> c]

\* the loop of lines 69-72 from PATTERNS[i] on: an address not yet among the
\* candidates is appended with confidence conf * 100 * 0.6
RECURSIVE AppendPatterns(_, _, _, _, _, _)
AppendPatterns(i, candidates, firstc, lastc, f, domain) ==
    IF i > Len(PATTERNS) THEN candidates
    ELSE LET email == FormatAddress(PATTERNS[i].p, firstc, lastc, f, domain)
             seen == \E k \in DOMAIN candidates : candidates[k].email = email
         IN AppendPatterns(i + 1,
                           IF seen THEN candidates
                           ELSE Append(candidates, Candidate(email, (PATTERNS[i].conf * 6) \div 10)),
                           firstc, lastc, f, domain)

MaxCandidates == 5

\* generate_email_candidates (48-74)
GenerateEmailCandidates(first_name, last_name, domain, detected_pattern) ==
    IF first_name = <<>> \/ last_name = <<>> THEN <<>>
    ELSE LET firstc == CleanName(first_name)
             lastc == CleanName(last_name)
             f == IF firstc = <<>> THEN <<>> ELSE <<firstc[1]>>
             start == IF detected_pattern.found
                      THEN << Candidate(FormatAddress(detected_pattern.p, firstc, lastc, f, domain),
                                        IF detected_pattern.conf < 70
                                        THEN detected_pattern.conf ELSE 70) >>
                      ELSE <<>>
             all == AppendPatterns(1, start, firstc, lastc, f, domain)
         IN SubSeq(all, 1, IF Len(all) < MaxCandidates THEN Len(all) ELSE MaxCandidates)

\* the contact of the pattern phase and the addresses stored for the other
\* contacts of its company
FirstNames == {<<>>, <<"J", "a", "n", "e">>, <<"J">>}
LastNames == {<<>>, <<"D", "o", "e">>, <<"1", "2", "3">>}
KnownEmails ==
    {Address(<<"j", ".", "d", "o", "e">>, "acme.com"),
     Address(<<"j", "a", "n", "e", ".", "d", "o", "e">>, "acme.com"),
     Address(<<"j", "a", "n", "e", "d", "o", "e">>, "acme.com"),
     Address(<<"j", "_", "d", "o", "e">>, "acme.com"),
     Address(<<"j", "d">>, "acme.com"),
     Address(<<"b", "o", "b">>, "other.org")}

KnownLists ==
    {k \in UNION {[1 .. n -> KnownEmails] : n \in 0 .. MaxKnown} :
        \A a, b \in DOMAIN k : k[a] = k[b] => a = b}

NewGuess(fst, lst, known) ==
    [pc |-> "discover", first_name |-> fst, last_name |-> lst, domain |-> "acme.com",
     known_emails |-> known, pattern |-> NoPattern, candidates |-> <<>>,
     email |-> Address(<<>>, ""), confidence |-> 0]

\* engine.py:579-580: the pattern of the company's known addresses
GuessDiscover ==
    /\ fn.pc = "discover"
    /\ fn' = [fn EXCEPT !.pc = "generate",
                        !.pattern = DiscoverEmailPattern(fn.known_emails, fn.domain)]
    /\ UNCHANGED fnRest

\* 587: the candidates for the contact
GuessGenerate ==
    /\ fn.pc = "generate"
    /\ fn' = [fn EXCEPT !.pc = "assign",
                        !.candidates = GenerateEmailCandidates(fn.first_name, fn.last_name,
                                                               fn.domain, fn.pattern)]
    /\ UNCHANGED fnRest

\* 588-592: the first candidate becomes the contact's address
GuessAssign ==
    /\ fn.pc = "assign"
    /\ fn.candidates # <<>>
    /\ fn' = [fn EXCEPT !.pc = "assigned", !.email = fn.candidates[1].email,
                        !.confidence = fn.candidates[1].conf]
    /\ UNCHANGED fnRest

\* 588: no candidate, the contact is left as it is
GuessNone ==
    /\ fn.pc = "assign"
    /\ fn.candidates = <<>>
    /\ fn' = [fn EXCEPT !.pc = "left"]
    /\ UNCHANGED fnRest

\* ----------------------------- scraper/extractors/data_enricher.py
\* the result fields whose absence asks for a second search (127-130), in
\* the order of the code, and the words that name them in the second query
Critical == <<"estimated_revenue", "state", "employee_count">>
Term(field) ==
    CASE field = "estimated_revenue" -> "revenue"
      [] field = "state" -> "headquarters location"
      [] field = "employee_count" -> "employees"

CriticalSet == {Critical[i] : i \in DOMAIN Critical}

\* the words of the first query (100)
Comprehensive == <<"revenue", "employees", "headquarters">>

\* 83-90: nothing is known
EmptyResult == [f \in CriticalSet |-> ""]

\* what a search brings: the fields the knowledge graph gives and those the
\* snippets give; a search without data or one that raised gives neither
\* (_do_search, 56-78)
Replies == {[kg |-> k, text |-> t] : k \in SUBSET CriticalSet, t \in SUBSET CriticalSet}

\* 104-124 and 138-155: _extract_from_kg writes the fields it finds (the
\* revenue and the employees also over a value found before, the state of
\* its attributes too), the snippets fill the fields still empty
Extract(result, reply) ==
    [f \in CriticalSet |->
        IF f \in reply.kg THEN "knowledge_graph"
        ELSE IF result[f] = "" /\ f \in reply.text THEN "snippet"
        ELSE result[f]]

\* 127-130: the words for the fields that are still empty
Missing_All(result) == [i \in DOMAIN Critical |-> Term(Critical[i])]
Missing(result) ==
    LET empty(f) == result[f] = ""
        fields == SelectSeq(Critical, empty)
    IN [i \in DOMAIN fields |-> Term(fields[i])]

NewEnrich(k) ==
    [pc |-> "has_keys", has_keys |-> k, result |-> EmptyResult,
     after_first |-> EmptyResult, queries |-> <<>>]

\* 92-94: without a key the empty result is returned
EnrichHasKeys ==
    /\ fn.pc = "has_keys"
    /\ fn' = [fn EXCEPT !.pc = IF fn.has_keys THEN "first" ELSE "returned"]
    /\ UNCHANGED fnRest

\* 100-124: the first search and what is taken from it
EnrichFirst ==
    /\ fn.pc = "first"
    /\ \E r \in Replies :
          LET res == Extract(fn.result, r)
          IN fn' = [fn EXCEPT !.pc = "missing", !.queries = Append(@, Comprehensive),
                              !.result = res, !.after_first = res]
    /\ UNCHANGED fnRest

\* 127-155: the second search, when a field is missing
EnrichSecond ==
    /\ fn.pc = "missing"
    /\ Missing(fn.result) # <<>>
    /\ \E r \in Replies :
          fn' = [fn EXCEPT !.pc = "returned", !.queries = Append(@, Missing(fn.result)),
                           !.result = Extract(fn.result, r)]
    /\ UNCHANGED fnRest

\* 132, 157-169: nothing is missing; the result is returned
EnrichReturn ==
    /\ fn.pc = "missing"
    /\ Missing(fn.result) = <<>>
    /\ fn' = [fn EXCEPT !.pc = "returned"]
    /\ UNCHANGED fnRest

\* ------------------------------------------------ merges into a record
\* the columns the merges write; "" is the empty value of each ("" or None)
EnrichFields == {"estimated_revenue", "revenue_source", "employee_count",
                 "employee_count_range", "state", "city"}
PageFields == {"description", "phone", "city", "state", "zip_code", "employee_count",
               "employee_count_range", "estimated_revenue", "revenue_source"}

\* what enrich_company returns (data_enricher.py:83-169): a revenue comes
\* with its source, a count with its range, a city only with a state
EnrichData ==
    {d \in [EnrichFields -> {"", "new"}] :
        /\ d.revenue_source = d.estimated_revenue
        /\ d.employee_count_range = d.employee_count
        /\ d.city = "new" => d.state = "new"}

\* the fields of a stored company
Companies == [EnrichFields -> {"", "old"}]

\* the draft of kompass.py:92-106 (thomasnet.py:105-119, industrynet.py:
\* 92-106): the snippet as description, city and state when the snippet
\* names both, every other field empty
Drafts ==
    {d \in [PageFields -> {"", "old"}] :
        /\ d.city = d.state
        /\ \A f \in PageFields \ {"description", "city", "state"} : d[f] = ""}

\* what extract_company reads from the company's own page
ScrapedPages == [PageFields -> {"", "new"}]

NewMerge(kind, c, d) == [pc |-> kind, company |-> c, data |-> d, before |-> c]

\* engine.py:782-810 (and 423-445): the enrichment data is merged
MergeEnriched(c, data) ==
    LET needs_revenue == c.estimated_revenue = ""
        needs_employees == c.employee_count = ""
        needs_state == c.state = ""
        c1 == IF needs_revenue /\ data.estimated_revenue # ""
              THEN [c EXCEPT !.estimated_revenue = data.estimated_revenue,
                             !.revenue_source = data.revenue_source]
              ELSE c
        c2 == IF needs_employees /\ data.employee_count # ""
              THEN [c1 EXCEPT !.employee_count = data.employee_count,
                              !.employee_count_range = data.employee_count_range]
              ELSE c1
    IN IF needs_state /\ data.state # ""
       THEN [c2 EXCEPT !.state = data.state, !.city = data.city]
       ELSE c2

\* kompass.py:114-131 (thomasnet.py:129-145, industrynet.py:115-131): the
\* page is merged into the draft
MergeScraped(c, scraped) ==
    [f \in PageFields |->
        CASE f \in {"city", "state"} ->
                IF scraped[f] # "" /\ c[f] = "" THEN scraped[f] ELSE c[f]
          [] f = "revenue_source" ->
                IF scraped.estimated_revenue # "" THEN scraped.revenue_source ELSE c[f]
          [] OTHER -> IF scraped[f] # "" THEN scraped[f] ELSE c[f]]

MergeEnrichment ==
    /\ fn.pc = "enrich"
    /\ fn' = [fn EXCEPT !.pc = "merged", !.company = MergeEnriched(fn.company, fn.data)]
    /\ UNCHANGED fnRest

MergePage ==
    /\ fn.pc = "page"
    /\ fn' = [fn EXCEPT !.pc = "merged", !.company = MergeScraped(fn.company, fn.data)]
    /\ UNCHANGED fnRest

\* --------------------------------- the company site of a search result
\* A network location as urlparse returns it: the labels of the host name,
\* which the dots separate, and the port with its colon ("" when the URL
\* names none).
Netloc(l, p) == [labels |-> l, port |-> p]
NoDomain == Netloc(<<>>, "")

\* str.lower on a label
LowerLabel(s) ==
    CASE s = "WWW" -> "www"
      [] s = "Acme" -> "acme"
      [] OTHER -> s

\* parsed.netloc.lower().removeprefix("www."), directory_utils.py:73, 100,
\* kompass.py:78, thomasnet.py:91, 202, google_search.py:67, 88, 102
NetlocDomain(n) ==
    LET low == [i \in DOMAIN n.labels |-> LowerLabel(n.labels[i])]
    IN IF Len(low) >= 2 /\ low[1] = "www"
       THEN Netloc(SubSeq(low, 2, Len(low)), n.port)
       ELSE Netloc(low, n.port)

\* domain == d, and domain.endswith("." + d), on the strings the labels
\* and the port spell
SameString(dom, d) == dom.port = "" /\ dom.labels = d
EndsWithDot(dom, d) ==
    /\ dom.port = ""
    /\ Len(dom.labels) > Len(d)
    /\ SubSeq(dom.labels, Len(dom.labels) - Len(d) + 1, Len(dom.labels)) = d

\* directory_utils.py:8-15 (thomasnet.py:210-217, industrynet.py the same)
SOCIAL_DOMAINS ==
    {<<"wikipedia", "org">>, <<"youtube", "com">>, <<"facebook", "com">>,
     <<"twitter", "com">>, <<"linkedin", "com">>, <<"instagram", "com">>,
     <<"reddit", "com">>, <<"yelp", "com">>, <<"indeed", "com">>,
     <<"glassdoor", "com">>, <<"bbb", "org">>, <<"crunchbase", "com">>,
     <<"thomasnet", "com">>, <<"kompass", "com">>, <<"industrynet", "com">>,
     <<"bloomberg", "com">>, <<"reuters", "com">>, <<"forbes", "com">>,
     <<"amazon", "com">>, <<"ebay", "com">>, <<"google", "com">>,
     <<"yahoo", "com">>}

\* directory_utils.py:26-30 (thomasnet.py:220-224)
IsSocialDomain(dom) ==
    \E d \in SOCIAL_DOMAINS : SameString(dom, d) \/ EndsWithDot(dom, d)

\* filters.py:4-47, its first entries; every entry is matched the same way
PUBLIC_COMPANY_DOMAINS ==
    {<<"boeing", "com">>, <<"lockheedmartin", "com">>, <<"rtx", "com">>,
     <<"raytheon", "com">>, <<"ge", "com">>, <<"honeywell", "com">>,
     <<"aerospace", "honeywell", "com">>}

\* filters.py:57-60
IsPublicCompanyDomain(dom) ==
    \E d \in PUBLIC_COMPANY_DOMAINS : SameString(NetlocDomain(dom), d)

\* google_search.py:12-28: the domains of SOCIAL_DOMAINS and more
SKIP_DOMAINS ==
    SOCIAL_DOMAINS \cup {<<"zoominfo", "com">>, <<"dnb", "com">>, <<"manta", "com">>,
                         <<"sec", "gov">>, <<"usa", "gov">>, <<"sba", "gov">>}

\* google_search.py:100-129; listPath says that the path holds one of
\* SKIP_PATH_PATTERNS or is more than three segments deep
IsCompanyUrl(n, listPath) ==
    LET domain == NetlocDomain(n)
    IN /\ ~\E skip \in SKIP_DOMAINS : SameString(domain, skip) \/ EndsWithDot(domain, skip)
       /\ ~(domain.port = "" /\ domain.labels # <<>>
             /\ domain.labels[Len(domain.labels)] = "gov")
       /\ ~IsPublicCompanyDomain(domain)
       /\ ~listPath

\* "domain and "." in domain and not is_social_domain(domain)",
\* directory_utils.py:101, kompass.py:79, thomasnet.py:92, 203
IsCompanyDomain(domain) ==
    /\ domain # NoDomain
    /\ Len(domain.labels) >= 2
    /\ ~IsSocialDomain(domain)

\* a snippet holds no address, a URL, or a bare host name
NoSnippet == [kind |-> "none", netloc |-> NoDomain]

\* directory_utils.py:63-84: the pattern of line 69 ends the URL before its
\* port; when the URL is refused the pattern of line 78 finds its host name,
\* which is refused too
ExtractDomainFromSnippet(s, exclude_domain) ==
    LET parsed == Netloc(s.netloc.labels, "")
        domain == NetlocDomain(parsed)
        ok == IsCompanyDomain(domain) /\ ~SameString(domain, exclude_domain)
    IN CASE s.kind = "url" /\ ok -> [domain |-> domain, website |-> parsed]
         [] s.kind = "bare" /\ domain # NoDomain /\ ~SameString(domain, exclude_domain)
                /\ ~IsSocialDomain(domain) -> [domain |-> domain, website |-> domain]
         [] OTHER -> [domain |-> NoDomain, website |-> NoDomain]

\* the directory adapters
DirectoryAdapters == {"kompass", "thomasnet", "industrynet"}

\* the pattern of kompass.py:72 (thomasnet.py:85, industrynet.py:74) passes
\* over a URL whose host name begins with the adapter's site
PageMatch(a, n) ==
    LET site == <<a, "com">>
        begins(l) == Len(n.labels) >= Len(l) /\ SubSeq(n.labels, 1, Len(l)) = l
    IN ~begins(site) /\ ~begins(<<"www">> \o site)

NoPage == NoDomain

\* kompass.py:75-81 (thomasnet.py:88-94, industrynet.py:77-83)
PageDomain(n) ==
    IF n # NoPage /\ IsCompanyDomain(NetlocDomain(n))
    THEN [domain |-> NetlocDomain(n), website |-> n]
    ELSE [domain |-> NoDomain, website |-> NoDomain]

\* directory_utils.py:95-103 (thomasnet.py:197-207): the first link of the
\* reply that is accepted
RECURSIVE FindCompanyWebsite(_)
FindCompanyWebsite(links) ==
    IF links = <<>> THEN [domain |-> NoDomain, website |-> NoDomain]
    ELSE IF IsCompanyDomain(NetlocDomain(Head(links)))
         THEN [domain |-> NetlocDomain(Head(links)), website |-> Head(links)]
         ELSE FindCompanyWebsite(Tail(links))

\* the host names a result, a page or a reply may hold
HostNames ==
    {<<"acme", "com">>, <<"WWW", "Acme", "com">>, <<"www", "boeing", "com">>,
     <<"www", "facebook", "com">>, <<"us", "kompass", "com">>,
     <<"www", "thomasnet", "com">>}
Netlocs == {Netloc(l, p) : l \in HostNames, p \in {"", ":443"}}
Snippets ==
    {NoSnippet} \cup {[kind |-> "url", netloc |-> n] : n \in Netlocs}
                \cup {[kind |-> "bare", netloc |-> Netloc(l, "")] :
                          l \in {h \in HostNames : \A i \in DOMAIN h : LowerLabel(h[i]) = h[i]}}
Pages(a) == {NoPage} \cup {n \in Netlocs : PageMatch(a, n)}
LinkLists == UNION {[1..k -> Netlocs] : k \in 0..MaxLinks}

\* one search result handed to an adapter: scrape_company of a directory
\* adapter starts at its first step, the general search at its filter
NewScrape(a, s, p, l, deep) ==
    [pc |-> CASE a = "kompass" -> "snippet"
              [] a = "google_search" -> "filter"
              [] OTHER -> "page",
     adapter |-> a, snippet |-> s, page |-> p, links |-> l, listPath |-> deep,
     tried |-> <<>>, domain |-> NoDomain, website |-> NoDomain, saved |-> {}]

Resolve(step, r, next) ==
    fn' = [fn EXCEPT !.pc = IF r.domain # NoDomain THEN "company" ELSE next,
                     !.domain = r.domain, !.website = r.website,
                     !.tried = Append(@, [step |-> step, domain |-> r.domain])]

\* kompass.py:63-64
SnippetStep ==
    /\ fn.pc = "snippet"
    /\ Resolve("snippet", ExtractDomainFromSnippet(fn.snippet, <<"kompass", "com">>), "page")
    /\ UNCHANGED fnRest

\* kompass.py:67-83, thomasnet.py:80-96, industrynet.py:69-85
PageStep ==
    /\ fn.pc = "page"
    /\ Resolve("page", PageDomain(fn.page), "search")
    /\ UNCHANGED fnRest

\* kompass.py:86-90, thomasnet.py:99-103, industrynet.py:87-91: the search
\* for the official website, and None when it finds no domain either
WebsiteSearch ==
    /\ fn.pc = "search"
    /\ Resolve("search", FindCompanyWebsite(fn.links), "none")
    /\ UNCHANGED fnRest

\* engine.py:365-378 and 757-768: the company a directory adapter returned
\* is saved; no other company is stored and none was seen before
SaveDirectory ==
    /\ fn.pc = "company"
    /\ fn.adapter \in DirectoryAdapters
    /\ fn' = [fn EXCEPT !.pc = "saved", !.saved = {fn.domain}]
    /\ UNCHANGED fnRest

\* google_search.py:85-97: a link of the reply becomes a result when
\* _is_company_url accepts it
SearchFilter ==
    /\ fn.pc = "filter"
    /\ LET link == fn.links[1]
       IN fn' = IF IsCompanyUrl(link, fn.listPath)
                THEN [fn EXCEPT !.pc = "company", !.domain = NetlocDomain(link),
                                !.website = link]
                ELSE [fn EXCEPT !.pc = "none"]
    /\ UNCHANGED fnRest

\* engine.py:277-311 and 757-768: the result of the general search is saved
SaveGeneral ==
    /\ fn.pc = "company"
    /\ fn.adapter = "google_search"
    /\ fn' = [fn EXCEPT !.pc = "saved", !.saved = {fn.domain}]
    /\ UNCHANGED fnRest

\* ------------------------------------------ engine._location_matches
\* A text is the sequence of its characters.
Uppers == <<"A", "B", "C", "D", "E", "F", "G", "H", "I", "J", "K", "L", "M", "N", "O", "P", "Q", "R", "S", "T", "U", "V", "W", "X", "Y", "Z">>
Lowers == <<"a", "b", "c", "d", "e", "f", "g", "h", "i", "j", "k", "l", "m", "n", "o", "p", "q", "r", "s", "t", "u", "v", "w", "x", "y", "z">>

\* str.lower and str.upper, character by character
LowerChar(c) ==
    IF \E i \in DOMAIN Uppers : Uppers[i] = c
    THEN Lowers[CHOOSE i \in DOMAIN Uppers : Uppers[i] = c] ELSE c
UpperChar(c) ==
    IF \E i \in DOMAIN Lowers : Lowers[i] = c
    THEN Uppers[CHOOSE i \in DOMAIN Lowers : Lowers[i] = c] ELSE c
LowerText(s) == [i \in DOMAIN s |-> LowerChar(s[i])]
UpperText(s) == [i \in DOMAIN s |-> UpperChar(s[i])]
IsAlpha(c) == LowerChar(c) # c \/ UpperChar(c) # c

\* str.strip
RECURSIVE Strip(_)
Strip(s) ==
    IF s = <<>> THEN s
    ELSE IF Head(s) = " " THEN Strip(Tail(s))
    ELSE IF s[Len(s)] = " " THEN Strip(SubSeq(s, 1, Len(s) - 1))
    ELSE s

\* str.split(","): the pieces between the commas
RECURSIVE SplitComma(_)
SplitComma(s) ==
    IF \A i \in DOMAIN s : s[i] # ","
    THEN <<s>>
    ELSE LET i == CHOOSE k \in DOMAIN s : s[k] = "," /\ \A m \in 1..(k - 1) : s[m] # ","
         IN <<SubSeq(s, 1, i - 1)>> \o SplitComma(SubSeq(s, i + 1, Len(s)))

\* a in b, for texts
IsSubstring(a, b) ==
    \E i \in 0..(Len(b) - Len(a)) : SubSeq(b, i + 1, i + Len(a)) = a

\* _STATE_NAMES (29-43): the entries of the states the inputs name
STATE_NAMES ==
    {[abbrev |-> <<"C", "A">>, name |-> <<"c", "a", "l", "i", "f", "o", "r", "n", "i", "a">>],
     [abbrev |-> <<"T", "X">>, name |-> <<"t", "e", "x", "a", "s">>],
     [abbrev |-> <<"N", "Y">>, name |-> <<"n", "e", "w", " ", "y", "o", "r", "k">>],
     [abbrev |-> <<"I", "L">>, name |-> <<"i", "l", "l", "i", "n", "o", "i", "s">>]}

\* _CITY_ALIASES (47-55): the aliases of New York and Los Angeles
CITY_ALIASES ==
    {[alias |-> <<"n", "y", "c">>, city |-> <<"n", "e", "w", " ", "y", "o", "r", "k">>, st |-> <<"N", "Y">>],
     [alias |-> <<"n", "e", "w", " ", "y", "o", "r", "k", " ", "c", "i", "t", "y">>, city |-> <<"n", "e", "w", " ", "y", "o", "r", "k">>, st |-> <<"N", "Y">>],
     [alias |-> <<"l", "a">>, city |-> <<"l", "o", "s", " ", "a", "n", "g", "e", "l", "e", "s">>, st |-> <<"C", "A">>]}

\* 70: the stripped, non-empty pieces of the filter
LocationParts(requested) ==
    LET pieces == SplitComma(requested)
    IN {Strip(pieces[i]) : i \in DOMAIN pieces} \ {<<>>}

\* 94: re.match(r"(.+?)\s+([A-Za-z]{2})$", part): two letters at the end,
\* white space before them, and a text before that
CityStMatch(part) ==
    /\ Len(part) >= 4
    /\ IsAlpha(part[Len(part)]) /\ IsAlpha(part[Len(part) - 1])
    /\ part[Len(part) - 2] = " "

\* 72-103: the states and the cities one piece of the filter adds
ParsePart(part) ==
    LET part_lower == LowerText(part)
        part_upper == UpperText(part)
        st == SubSeq(part_upper, Len(part) - 1, Len(part))
    IN CASE \E a \in CITY_ALIASES : a.alias = part_lower ->
              LET a == CHOOSE a \in CITY_ALIASES : a.alias = part_lower
              IN [states |-> {a.st}, cities |-> {a.city}]
         [] OTHER ->
            IF \E s \in STATE_NAMES : s.abbrev = part_upper
            THEN [states |-> {part_upper}, cities |-> {}]
            ELSE IF \E s \in STATE_NAMES : s.name = part_lower
            THEN [states |-> {(CHOOSE s \in STATE_NAMES : s.name = part_lower).abbrev},
                  cities |-> {}]
            ELSE IF CityStMatch(part) /\ \E s \in STATE_NAMES : s.abbrev = st
            THEN [states |-> {st},
                  cities |-> {LowerText(Strip(SubSeq(part, 1, Len(part) - 3)))}]
            ELSE [states |-> {}, cities |-> {part_lower}]

\* _normalize_location (58-105)
NormalizeLocation(requested) ==
    [states |-> UNION {ParsePart(p).states : p \in LocationParts(requested)},
     cities |-> UNION {ParsePart(p).cities : p \in LocationParts(requested)}]

\* 122: a city of more than this many characters is dropped
MaxCityLen == 30

\* 118-125: the state and city the comparison uses
CompanyState(company_state) ==
    LET state == UpperText(Strip(company_state))
    IN IF Len(state) # 2 THEN <<>> ELSE state
CompanyCity(company_city) ==
    LET city == LowerText(Strip(company_city))
    IN IF Len(city) > MaxCityLen THEN <<>> ELSE city

\* 128-142: the decision, once the filter is parsed
KeepAll(state, city, target) == TRUE
Decide(state, city, target) ==
    IF state = <<>> /\ city = <<>> THEN TRUE
    ELSE IF state # <<>> /\ target.states # {} THEN state \in target.states
    ELSE IF city # <<>> /\ target.cities # {}
         THEN \E tc \in target.cities : IsSubstring(tc, city) \/ IsSubstring(city, tc)
         ELSE TRUE

\* the stored state and city of a company, and the filter of a job
CompanyStates ==
    {<<>>, <<"C", "A">>, <<"T", "X">>, <<"N", "Y">>, <<"c", "a", " ">>, <<"C", "a", "l", "i", "f", "o", "r", "n", "i", "a">>, <<"Z", "Z">>}
CompanyCities ==
    {<<>>, <<"N", "e", "w", " ", "Y", "o", "r", "k">>,
     <<"D", "a", "l", "l", "a", "s">>,
     <<"L", "o", "s", " ", "A", "n", "g", "e", "l", "e", "s">>,
     [i \in 1..(MaxCityLen + 1) |-> "x"]}
Filters ==
    {<<>>, <<"T", "e", "x", "a", "s">>,
     <<"N", "Y", "C">>,
     <<"D", "a", "l", "l", "a", "s">>,
     <<"T", "X">>,
     <<"D", "a", "l", "l", "a", "s", ",", " ", "T", "X">>,
     <<"C", "h", "i", "c", "a", "g", "o", " ", "I", "L">>,
     <<" ">>,
     <<"T", "e", "x", "a", "s", ",", " ", "N", "Y", "C">>}

NewMatch(s, c, f) ==
    [pc |-> "called", company_state |-> s, company_city |-> c, requested |-> f,
     target |-> [states |-> {}, cities |-> {}], result |-> FALSE]

\* 114-115: no filter
MatchNoFilter ==
    /\ fn.pc = "called"
    /\ fn.requested = <<>>
    /\ fn' = [fn EXCEPT !.pc = "matched", !.result = TRUE]
    /\ UNCHANGED fnRest

\* 117: the filter is parsed
MatchNormalize ==
    /\ fn.pc = "called"
    /\ fn.requested # <<>>
    /\ fn' = [fn EXCEPT !.pc = "parsed", !.target = NormalizeLocation(fn.requested)]
    /\ UNCHANGED fnRest

\* 118-142
MatchDecide ==
    /\ fn.pc = "parsed"
    /\ fn' = [fn EXCEPT !.pc = "matched",
                        !.result = Decide(CompanyState(fn.company_state),
                                          CompanyCity(fn.company_city), fn.target)]
    /\ UNCHANGED fnRest

\* ----------------------------- industries/query_templates.generate_queries
\* A query is the sequence of its pieces: the literal parts of a template
\* and the values put in its fields.  The industry name and the keywords
\* are literals, the location is a text.
Lit(s) == [lit |-> s, text |-> <<>>]
Txt(t) == [lit |-> "", text |-> t]

\* SEARCH_TEMPLATES (4-10)
SEARCH_TEMPLATES ==
    << <<"\"", "{industry}", "\" company ", "{location}", " -wikipedia -fortune -NYSE -NASDAQ">>,
       <<"\"", "{industry}", "\" supplier ", "{location}", " small business">>,
       <<"\"", "{industry}", "\" manufacturer ", "{location}", " LLC OR Inc">>,
       <<"\"", "{industry}", "\" distributor company ", "{location}">>,
       <<"\"", "{industry}", "\" services company ", "{location}">> >>

\* KEYWORD_TEMPLATES (13-17)
KEYWORD_TEMPLATES ==
    << <<"\"", "{keyword}", "\" manufacturer company ", "{location}">>,
       <<"\"", "{keyword}", "\" supplier ", "{location}", " -wikipedia">>,
       <<"\"", "{keyword}", "\" company ", "{location}", " LLC OR Inc">> >>

\* 48: the query of a sub-industry
SUB_TEMPLATE == <<"\"", "{keyword}", "\" company ", "{location}", " -wikipedia">>

\* DIRECTORY_QUERIES.values() (19-22), in the order of the dictionary
DirectoryTemplates ==
    << <<"site:thomasnet.com/profile \"", "{keyword}", "\"">>,
       <<"site:industrynet.com \"", "{keyword}", "\"">> >>

\* definitions.INDUSTRIES (12-70): two of its entries
INDUSTRIES ==
    [name \in {"Aerospace & Defense", "Specialty Chemicals"} |->
        IF name = "Aerospace & Defense"
        THEN [keywords |-> <<"aerospace", "defense", "aviation", "aircraft parts",
                             "missile systems", "satellite", "space systems",
                             "military equipment", "avionics">>,
              sub_industries |-> <<"Aircraft Parts", "Defense Electronics", "Space Systems",
                                   "Avionics", "Military Vehicles", "Missile Systems">>]
        ELSE [keywords |-> <<"specialty chemicals", "chemical manufacturing", "adhesives",
                             "coatings", "polymers", "catalysts", "lubricants", "sealants",
                             "resins">>,
              sub_industries |-> <<"Adhesives & Sealants", "Coatings", "Polymers & Resins",
                                   "Catalysts", "Lubricants", "Industrial Gases">>]]

\* the slices of lines 42, 47 and 51
MaxKeywords == 6
MaxSubIndustries == 4
MaxDirectoryKeywords == 3

\* str.format: every field of the template takes its value, every other
\* piece stays
Fill(template, word, where) ==
    [i \in DOMAIN template |->
        CASE template[i] \in {"{industry}", "{keyword}"} -> Lit(word)
          [] template[i] = "{location}" -> Txt(where)
          [] OTHER -> Lit(template[i])]

\* s[:n]
Slice(s, n) == SubSeq(s, 1, IF Len(s) < n THEN Len(s) ELSE n)

\* the concatenation of the lists of a list
RECURSIVE Flatten(_)
Flatten(ss) == IF ss = <<>> THEN <<>> ELSE Head(ss) \o Flatten(Tail(ss))

USA == <<"U", "S", "A">>

QueryLocation_NoDefault(location) == Strip(location)

\* 32
QueryLocation(location) == IF location # <<>> THEN Strip(location) ELSE USA

\* 36-37
TemplateQueries(industry_name, location) ==
    [i \in DOMAIN SEARCH_TEMPLATES |->
        Fill(SEARCH_TEMPLATES[i], industry_name, QueryLocation(location))]

\* 53-56, 60-63: the directory queries of one keyword
DirectoryQueries(keyword, location) ==
    [i \in DOMAIN DirectoryTemplates |->
        LET q == Fill(DirectoryTemplates[i], keyword, <<>>)
        IN IF location # <<>> THEN q \o <<Lit(" "), Txt(location)>> ELSE q]

\* 42-56: the queries of a curated industry
CuratedQueries(industry, location) ==
    LET where == QueryLocation(location)
        kws == Slice(industry.keywords, MaxKeywords)
        subs == Slice(industry.sub_industries, MaxSubIndustries)
        dirs == Slice(industry.keywords, MaxDirectoryKeywords)
    IN Flatten([k \in DOMAIN kws |->
                   [i \in DOMAIN KEYWORD_TEMPLATES |-> Fill(KEYWORD_TEMPLATES[i], kws[k], where)]])
       \o [k \in DOMAIN subs |-> Fill(SUB_TEMPLATE, subs[k], where)]
       \o Flatten([k \in DOMAIN dirs |-> DirectoryQueries(dirs[k], location)])

\* the industries and locations of a job
IndustryNames == {"Aerospace & Defense", "Specialty Chemicals", "Widgets", "Drone Parts", ""}
QueryLocations ==
    {<<>>, <<"T", "X">>, <<" ", "T", "X", " ">>, <<" ">>, <<"N", "Y", "C">>}

\* generate_queries is called twice for the same industry and location
NewQueries(industry_name, location) ==
    [pc |-> "templates", industry_name |-> industry_name, location |-> location,
     queries |-> <<>>, returned |-> <<>>]

\* 32-37
GenTemplates ==
    /\ fn.pc = "templates"
    /\ fn' = [fn EXCEPT !.pc = "industry",
                        !.queries = TemplateQueries(fn.industry_name, fn.location)]
    /\ UNCHANGED fnRest

QueriesReturn(queries) ==
    fn' = [fn EXCEPT !.pc = IF fn.returned = <<>> THEN "templates" ELSE "done",
                     !.queries = <<>>,
                     !.returned = Append(@, queries)]

\* 40-56, 65
GenCurated ==
    /\ fn.pc = "industry"
    /\ fn.industry_name \in DOMAIN INDUSTRIES
    /\ QueriesReturn(fn.queries \o CuratedQueries(INDUSTRIES[fn.industry_name], fn.location))
    /\ UNCHANGED fnRest

\* 57-65
GenCustom ==
    /\ fn.pc = "industry"
    /\ fn.industry_name \notin DOMAIN INDUSTRIES
    /\ QueriesReturn(fn.queries \o DirectoryQueries(fn.industry_name, fn.location))
    /\ UNCHANGED fnRest

\* --------------------------------- company_service: revenue brackets
\* amounts are whole dollars
Million == 1000000
Thousand == 1000

\* REVENUE_BRACKETS (9-18); None is written NoBound
NoBound == 0 - 1
REVENUE_BRACKETS ==
    [b \in {"under_1m", "1m_10m", "10m_50m", "50m_100m", "100m_200m", "200m_500m",
            "500m_1b", "over_1b"} |->
        CASE b = "under_1m" -> <<NoBound, Million>>
          [] b = "1m_10m" -> <<Million, 10 * Million>>
          [] b = "10m_50m" -> <<10 * Million, 50 * Million>>
          [] b = "50m_100m" -> <<50 * Million, 100 * Million>>
          [] b = "100m_200m" -> <<100 * Million, 200 * Million>>
          [] b = "200m_500m" -> <<200 * Million, 500 * Million>>
          [] b = "500m_1b" -> <<500 * Million, Thousand * Million>>
          [] OTHER -> <<Thousand * Million, NoBound>>]

Digits == <<"0", "1", "2", "3", "4", "5", "6", "7", "8", "9">>
IsDigit(c) == \E i \in DOMAIN Digits : Digits[i] = c
DigitValue(c) == (CHOOSE i \in DOMAIN Digits : Digits[i] = c) - 1

RECURSIVE DigitsValue(_)
DigitsValue(s) ==
    IF s = <<>> THEN 0 ELSE 10 * DigitsValue(SubSeq(s, 1, Len(s) - 1)) + DigitValue(s[Len(s)])

RECURSIVE Power10(_)
Power10(n) == IF n = 0 THEN 1 ELSE 10 * Power10(n - 1)

\* the longest run of characters of a kind at the start of a text
Leading(s, kind(_)) ==
    SubSeq(s, 1, CHOOSE n \in 0..Len(s) :
                    /\ \A i \in 1..n : kind(s[i])
                    /\ n = Len(s) \/ ~kind(s[n + 1]))

IsSpace(c) == c = " "
IsNumberChar(c) == IsDigit(c) \/ c = "."
NotTildeComma(c) == c \notin {"~", ","}

\* what _parse_revenue_to_number gives: None, a number, or the ValueError
\* of float()
NoNumber == [kind |-> "none", val |-> 0]
Number(v) == [kind |-> "number", val |-> v]
ValueError == [kind |-> "raised", val |-> 0]

\* 30: float() of digits and dots, times the multiplier of the suffix; the
\* texts of the model have no more decimals than the multiplier has zeros
Float(num, zeros) ==
    LET dots == {i \in DOMAIN num : num[i] = "."}
        digits == SelectSeq(num, IsDigit)
        decimals == IF dots = {} THEN 0 ELSE Len(num) - (CHOOSE i \in dots : TRUE)
    IN IF Cardinality(dots) > 1 \/ digits = <<>>
       THEN ValueError
       ELSE Number(DigitsValue(digits) * Power10(zeros - decimals))

\* _parse_revenue_to_number (21-38)
ParseRevenueToNumber(rev_str) ==
    LET s == Strip(SelectSeq(rev_str, NotTildeComma))
        afterDollar == Tail(s)
        sp1 == Leading(afterDollar, IsSpace)
        rest1 == SubSeq(afterDollar, Len(sp1) + 1, Len(afterDollar))
        num == Leading(rest1, IsNumberChar)
        rest2 == SubSeq(rest1, Len(num) + 1, Len(rest1))
        sp2 == Leading(rest2, IsSpace)
        rest3 == SubSeq(rest2, Len(sp2) + 1, Len(rest2))
        suffix == IF rest3 # <<>> /\ UpperChar(Head(rest3)) \in {"B", "M", "K"}
                  THEN UpperChar(Head(rest3)) ELSE ""
    IN IF rev_str = <<>> \/ s = <<>> \/ Head(s) # "$" THEN NoNumber
       ELSE IF num = <<>> THEN NoNumber
       ELSE Float(num, CASE suffix = "B" -> 9 [] suffix = "M" -> 6
                         [] suffix = "K" -> 3 [] OTHER -> 0)

\* get_companies 76-83: the company is among the matching ones of a bracket
AlwaysInBracket(val, bracket) == TRUE
InBracket(val, bracket) ==
    LET low == REVENUE_BRACKETS[bracket][1]
        high == REVENUE_BRACKETS[bracket][2]
    IN /\ ~(low # NoBound /\ val < low)
       /\ ~(high # NoBound /\ val >= high)

\* the estimated_revenue of the stored company
RevenueStrings ==
    {<<"$", "5", "0", "M">>,
     <<"~", "$", "5", "0", "M">>,
     <<"$", "4", "9", "M">>,
     <<"$", "1", ".", "2", "B">>,
     <<"$", "9", "9", "9", "K">>,
     <<"$", "1", ",", "0", "0", "0", "K">>,
     <<"$", "0", ".", "5", "M">>,
     <<"$", "1", "0", "0", "M">>,
     <<"$", " ", "2", "0", "0", " ", "m">>,
     <<"$", "5", "0", "0">>,
     <<"$", "1", "B">>,
     <<"$", "1", ".", "2", ".", "3", "M">>,
     <<"5", "0", "M">>,
     <<>>,
     <<"$", "M">>,
     <<"$", "2", "B">>}

NewListing(rev_str) == [pc |-> "listing", rev_str |-> rev_str, asked |-> {},
                        listed |-> {}, raised |-> {}]

\* get_companies (69-86) with revenue_bracket = b
GetCompanies(b) ==
    /\ fn.pc = "listing"
    /\ b \notin fn.asked
    /\ LET val == ParseRevenueToNumber(fn.rev_str)
       IN fn' = [fn EXCEPT
                   !.asked = @ \cup {b},
                   !.raised = IF val.kind = "raised" THEN @ \cup {b} ELSE @,
                   !.listed = IF val.kind = "number" /\ InBracket(val.val, b)
                              THEN @ \cup {b} ELSE @]
    /\ UNCHANGED fnRest

\* ------------------------------------------- app/routers/jobs.py handlers
Idle == [stage |-> "idle", seen |-> "none"]
NoResponse == [kind |-> "none", job |-> 0, code |-> 0]

Respond(k, j, code) == last' = [kind |-> k, job |-> j, code |-> code]

\* the application serves requests once its startup has completed
CanIssue(j, k) == up /\ req[j][k].stage = "idle" /\ nreq < MaxRequests

\* the status a handler accepts: pause_job:93, resume_job:107, start_job:121,
\* cancel_job:135
CanPause_AnyStatus(s) == TRUE
CanPause(s) == s = "running"
CanResume_AnyStatus(s) == TRUE
CanResume(s) == s = "paused"
CanStart(s) == s \in {"pending"}
CanCancel_NotCompleted(s) == s # "completed"
CanCancel(s) == s \notin {"completed", "cancelled"}

Accepts(k, s) ==
    CASE k = "pause" -> CanPause(s)
      [] k = "resume" -> CanResume(s)
      [] k = "start" -> CanStart(s)
      [] k = "cancel" -> CanCancel(s)

\* pause_job:89-94, resume_job:103-108, cancel_job:131-136: the SELECT of the
\* job row and the check that follows it without an await; HTTP 400 when the
\* status read is not accepted.
ReqRead(j, k) ==
    /\ CanIssue(j, k)
    /\ nreq' = nreq + 1
    /\ IF Accepts(k, status[j])
       THEN /\ req' = [req EXCEPT ![j][k] = [stage |-> "read", seen |-> status[j]]]
            /\ UNCHANGED last
       ELSE /\ Respond(k, j, 400)
            /\ UNCHANGED req
    /\ UNCHANGED <<dbJob, dbRows, cfgVars, activeJobs, pc, loc, mustCancel, hist>>

\* pause_job:95-98: job.status = "paused"; commit
PauseCommit(j) ==
    /\ req[j]["pause"].stage = "read"
    /\ UpdateJobStatus(j, "paused")
    /\ req' = [req EXCEPT ![j]["pause"] = Idle]
    /\ Respond("pause", j, 200)
    /\ UNCHANGED <<counters, logs, nWarn, dbRows, cfgVars, activeJobs, pc, loc,
                   mustCancel, nreq, hist>>

\* resume_job:109-112: job.status = "running"; commit
ResumeCommit(j) ==
    /\ req[j]["resume"].stage = "read"
    /\ UpdateJobStatus(j, "running")
    /\ req' = [req EXCEPT ![j]["resume"] = Idle]
    /\ Respond("resume", j, 200)
    /\ UNCHANGED <<counters, logs, nWarn, dbRows, cfgVars, activeJobs, pc, loc,
                   mustCancel, nreq, hist>>

StartRequest_NoRegistryCheck(j) ==
    /\ CanIssue(j, "start")
    /\ nreq' = nreq + 1
    /\ IF CanStart(status[j])
       THEN /\ Respond("start", j, 200)
            /\ hist' = [hist EXCEPT ![j].startActive = @ \/ j \in activeJobs]
            /\ pc' = [pc EXCEPT ![j] = "created"]
            /\ loc' = [loc EXCEPT ![j] = InitLoc]
            /\ activeJobs' = activeJobs \cup {j}
            /\ mustCancel' = [mustCancel EXCEPT ![j] = FALSE]
       ELSE /\ Respond("start", j, 400)
            /\ UNCHANGED <<pc, loc, activeJobs, mustCancel, hist>>
    /\ UNCHANGED <<dbJob, dbRows, cfgVars, req>>

\* start_job:117-126 with engine.start_job:161-166.  No await separates the
\* status check from asyncio.create_task, and start_job creates no second
\* task for a job id that is in _active_jobs.
StartRequest(j) ==
    /\ CanIssue(j, "start")
    /\ nreq' = nreq + 1
    /\ IF CanStart(status[j])
       THEN /\ Respond("start", j, 200)
            /\ hist' = [hist EXCEPT ![j].startActive = @ \/ j \in activeJobs]
            /\ IF j \in activeJobs
               THEN UNCHANGED <<pc, loc, activeJobs, mustCancel>>
               ELSE /\ pc' = [pc EXCEPT ![j] = "created"]
                    /\ loc' = [loc EXCEPT ![j] = InitLoc]
                    /\ activeJobs' = activeJobs \cup {j}
                    /\ mustCancel' = [mustCancel EXCEPT ![j] = FALSE]
       ELSE /\ Respond("start", j, 400)
            /\ UNCHANGED <<pc, loc, activeJobs, mustCancel, hist>>
    /\ UNCHANGED <<dbJob, dbRows, cfgVars, req>>

\* cancel_job:137-138: job.status = "cancelled"; commit
CancelCommit(j) ==
    /\ req[j]["cancel"].stage = "read"
    /\ UpdateJobStatus(j, "cancelled")
    /\ req' = [req EXCEPT ![j]["cancel"].stage = "committed"]
    /\ UNCHANGED <<counters, logs, nWarn, dbRows, cfgVars, activeJobs, pc, loc,
                   mustCancel, nreq, last, hist>>

CancelEngine_NoTaskCancel(j) ==
    /\ req[j]["cancel"].stage = "committed"
    /\ req' = [req EXCEPT ![j]["cancel"] = Idle]
    /\ Respond("cancel", j, 200)
    /\ hist' = [hist EXCEPT ![j].cancelRunning = @ \/ req[j]["cancel"].seen = "running",
                            ![j].cancelActive = @ \/ j \in activeJobs]
    /\ UNCHANGED <<dbJob, dbRows, cfgVars, activeJobs, pc, loc, nreq, mustCancel>>
\* cancel_job:139-142 with engine.cancel_job:169-172: task.cancel() when the
\* job has a task that is not done
CancelEngine(j) ==
    /\ req[j]["cancel"].stage = "committed"
    /\ mustCancel' = [mustCancel EXCEPT ![j] = @ \/ j \in activeJobs]
    /\ req' = [req EXCEPT ![j]["cancel"] = Idle]
    /\ Respond("cancel", j, 200)
    /\ hist' = [hist EXCEPT ![j].cancelRunning = @ \/ req[j]["cancel"].seen = "running",
                            ![j].cancelActive = @ \/ j \in activeJobs]
    /\ UNCHANGED <<dbJob, dbRows, cfgVars, activeJobs, pc, loc, nreq>>

Request(j) ==
    \/ \E k \in Kinds \ {"start"} : ReqRead(j, k)
    \/ StartRequest(j)
    \/ PauseCommit(j)
    \/ ResumeCommit(j)
    \/ CancelCommit(j)
    \/ CancelEngine(j)

\* ------------------------------------------------ engine._run_job:175-213
\* pc[j] names the next awaited operation of the task; the task is suspended
\* at the await before it.
L(j) == loc[j]
SetLoc(j, r) == loc' = [loc EXCEPT ![j] = r]
Goto(j, p) == pc' = [pc EXCEPT ![j] = p]
Ready(j, p) == pc[j] = p /\ ~mustCancel[j]
Raised(j) == hist' = [hist EXCEPT ![j].excs = @ + 1]

\* tasks suspended at an await outside the try block of lines 184-205: the
\* task not started yet, lines 177-182, and the two except handlers
OutsideTry == {"created", "set_running", "log_started", "enter",
               "h_cancel", "h_cancel_log", "h_fail", "h_fail_log"}

TaskFrame == UNCHANGED <<cfgVars, reqVars, activeJobs, mustCancel>>

\* task.cancel() takes effect when the task is resumed: CancelledError is
\* thrown at the await the task is suspended at.  Inside the try it reaches
\* `except asyncio.CancelledError` (207); elsewhere it ends the task.
RaiseCancelled(j) ==
    /\ Alive(j) /\ mustCancel[j]
    /\ IF pc[j] \in OutsideTry
       THEN TaskEnds(j, "killed")
       ELSE /\ Goto(j, "h_cancel")
            /\ mustCancel' = [mustCancel EXCEPT ![j] = FALSE]
            /\ UNCHANGED activeJobs
    /\ UNCHANGED <<dbJob, dbRows, cfgVars, reqVars, loc, hist>>

\* job_service.get_job:9-11 on the session of _run_job: the status of the
\* instance the session holds; the row is read when the instance is expired
SessionStatus(j) ==
    IF L(j).jobStatus = "expired" THEN status[j] ELSE L(j).jobStatus

\* db.rollback() (engine.py:553) expires the instances of the session
Expired(r) == [r EXCEPT !.jobStatus = "expired"]

\* job_service.update_job_status:14-23 on the session of _run_job
TaskSetStatus(j, s) ==
    /\ UpdateJobStatus(j, s)
    /\ SetLoc(j, [L(j) EXCEPT !.jobStatus = s])

\* 177-179: job = get_job(...), the first load of the row
RunGetJob(j) ==
    /\ Ready(j, "created")
    /\ Goto(j, "set_running")
    /\ SetLoc(j, [L(j) EXCEPT !.jobStatus = status[j]])
    /\ UNCHANGED <<dbJob, dbRows, hist>> /\ TaskFrame

\* 181: update_job_status(db, job_id, "running")
RunSetRunning(j) ==
    /\ Ready(j, "set_running")
    /\ TaskSetStatus(j, "running")
    /\ Goto(j, "log_started")
    /\ UNCHANGED <<counters, logs, nWarn, dbRows, hist>> /\ TaskFrame

\* 182: add_log "Job started"
RunLogStarted(j) ==
    /\ Ready(j, "log_started")
    /\ AddLog(j, "info", "Job started")
    /\ Goto(j, "enter")
    /\ UNCHANGED <<status, counters, dbRows, loc, hist>> /\ TaskFrame

\* 204: update_job_status(db, job_id, "completed")
RunSetCompleted(j) ==
    /\ Ready(j, "set_completed")
    /\ TaskSetStatus(j, "completed")
    /\ Goto(j, "log_completed")
    /\ UNCHANGED <<counters, logs, nWarn, dbRows, hist>> /\ TaskFrame

\* 205: add_log "Job completed successfully" (still inside the try)
RunLogCompleted(j) ==
    /\ Ready(j, "log_completed")
    /\ AddLog(j, "info", "Job completed successfully")
    /\ Goto(j, "finishing")
    /\ UNCHANGED <<status, counters, dbRows, loc, hist>> /\ TaskFrame

\* the await of line 205 returns and _run_job with it
RunReturn(j) ==
    /\ Ready(j, "finishing")
    /\ TaskEnds(j, "done")
    /\ UNCHANGED <<dbJob, dbRows, cfgVars, reqVars, loc, hist>>

\* 208: update_job_status(db, job_id, "cancelled")
HandleCancelStatus(j) ==
    /\ Ready(j, "h_cancel")
    /\ TaskSetStatus(j, "cancelled")
    /\ Goto(j, "h_cancel_log")
    /\ UNCHANGED <<counters, logs, nWarn, dbRows, hist>> /\ TaskFrame

\* 209: add_log "Job cancelled", and the task returns
HandleCancelLog(j) ==
    /\ Ready(j, "h_cancel_log")
    /\ AddLog(j, "info", "Job cancelled")
    /\ TaskEnds(j, "done")
    /\ UNCHANGED <<status, counters, dbRows, cfgVars, reqVars, loc, hist>>

\* 212: update_job_status(db, job_id, "failed")
HandleFailStatus(j) ==
    /\ Ready(j, "h_fail")
    /\ TaskSetStatus(j, "failed")
    /\ Goto(j, "h_fail_log")
    /\ UNCHANGED <<counters, logs, nWarn, dbRows, hist>> /\ TaskFrame

\* 213: add_log "Job failed: ...", and the task returns
HandleFailLog(j) ==
    /\ Ready(j, "h_fail_log")
    /\ AddLog(j, "error", "Job failed")
    /\ TaskEnds(j, "done")
    /\ UNCHANGED <<status, counters, dbRows, cfgVars, reqVars, loc, hist>>

\* engine._check_job_status:824-828, followed by the task going on to p:
\* job = get_job(db, job_id) on the session of _run_job; CancelledError on
\* job.status cancelled, polling on job.status paused
CheckJobStatus(j, p) ==
    LET seen == SessionStatus(j)
        r == [L(j) EXCEPT !.jobStatus = seen]
    IN IF seen = "cancelled" THEN Goto(j, "h_cancel") /\ SetLoc(j, r)
       ELSE IF seen = "paused"
            THEN Goto(j, "poll") /\ SetLoc(j, [r EXCEPT !.ret = p])
            ELSE Goto(j, p) /\ SetLoc(j, r)

\* 829-835: sleep(2); db.refresh(job) reads the row; return on running,
\* CancelledError on cancelled or failed, otherwise keep polling
Poll(j) ==
    /\ Ready(j, "poll")
    /\ status[j] \in {"running", "cancelled", "failed"}
    /\ IF status[j] = "running" THEN Goto(j, L(j).ret) ELSE Goto(j, "h_cancel")
    /\ SetLoc(j, [L(j) EXCEPT !.jobStatus = status[j]])
    /\ UNCHANGED <<dbJob, dbRows, hist>> /\ TaskFrame

\* --------------------------------------------- engine._phase_discovery
\* the sequences of distinct elements of S
RECURSIVE DistinctSeqs(_)
DistinctSeqs(S) ==
    IF S = {} THEN {<<>>}
    ELSE {<<>>} \cup UNION {{<<x>> \o t : t \in DistinctSeqs(S \ {x})} : x \in S}

\* engine._normalize_location:58-105, for the filters of Locations
TargetStates(filter) == IF filter = "Texas" THEN {"TX"} ELSE {}

\* engine._location_matches:108-142, for a company without city data
LocationMatches(state, filter) ==
    IF filter = "" THEN TRUE
    ELSE IF state = "" THEN TRUE
    ELSE IF TargetStates(filter) # {} THEN state \in TargetStates(filter)
    ELSE TRUE

Cont(j, x) == SetLoc(j, x.loc) /\ Goto(j, x.pc)

\* 218-221: an empty sources list enables every source
RunGoogle(j) == config[j].sources = {} \/ "google" \in config[j].sources

\* 340-346: the directory scrapers the sources enable, in their fixed order
DirScrapers(j) ==
    SelectSeq(DirSources, LAMBDA src : config[j].sources = {} \/ src \in config[j].sources)

\* 402-405 and what _run_job does next (lines 195-204)
AfterDiscovery(r) == [loc |-> r, pc |-> "d_done"]

\* the loop over the directory scrapers (348) is entered or left
AfterGoogle(j, r) ==
    IF DirScrapers(j) # <<>>
    THEN [loc |-> [r EXCEPT !.di = 1, !.phase = "dir"], pc |-> "ds_check"]
    ELSE AfterDiscovery(r)

\* `for query in queries` (252) moves on
AfterQuery(j, r) ==
    IF r.qi < Len(config[j].queries)
    THEN [loc |-> [r EXCEPT !.qi = @ + 1], pc |-> "q_check"]
    ELSE AfterGoogle(j, r)

\* `for r in new_results` (273) moves on
AfterItem(j, r) ==
    IF Len(r.pending) > 1 THEN [loc |-> [r EXCEPT !.pending = Tail(@)], pc |-> "g_check"]
    ELSE AfterQuery(j, [r EXCEPT !.pending = <<>>])

\* `for result in results` (361) moves on
AfterResult(r) ==
    IF r.nres > 1 THEN [loc |-> [r EXCEPT !.nres = @ - 1], pc |-> "r_check"]
    ELSE [loc |-> [r EXCEPT !.nres = 0], pc |-> "ds_end"]

AfterSaved(j, r) == IF r.phase = "google" THEN AfterItem(j, r) ELSE AfterResult(r)

\* 185-192 and 217-235: the job's configuration is read, the phase is chosen
\* by job_type and its first log entries are written
Enter(j) ==
    /\ Ready(j, "enter")
    /\ IF config[j].job_type \in {"discovery", "full"}
       THEN /\ AddLog(j, "info", "Starting discovery phase")
            /\ IF RunGoogle(j)
               THEN Cont(j, [loc |-> [L(j) EXCEPT !.phase = "google", !.qi = 1],
                             pc |-> "i_check"])
               ELSE Cont(j, AfterGoogle(j, L(j)))
       ELSE /\ AddLog(j, "info", "Starting data enrichment")
            /\ Cont(j, [loc |-> [L(j) EXCEPT !.phase = "data"], pc |-> "de_select"])
    /\ UNCHANGED <<status, counters, dbRows, hist>> /\ TaskFrame

\* 248: status check of the industry loop
IndustryCheck(j) ==
    /\ Ready(j, "i_check")
    /\ CheckJobStatus(j, "i_log")
    /\ UNCHANGED <<dbJob, dbRows, hist>> /\ TaskFrame

\* 249-250: generate_queries, log "Searching <industry>"
IndustryLog(j) ==
    /\ Ready(j, "i_log")
    /\ AddLog(j, "info", "Searching industry")
    /\ Goto(j, "q_check")
    /\ UNCHANGED <<status, counters, dbRows, loc, hist>> /\ TaskFrame

\* 253: status check of the query loop
QueryCheck(j) ==
    /\ Ready(j, "q_check")
    /\ CheckJobStatus(j, "q_search")
    /\ UNCHANGED <<dbJob, dbRows, hist>> /\ TaskFrame

\* 255-271 and 335-337: scraper.search raises (errors += 1, log warning
\* "Search failed"), returns nothing, or returns results; the new ones are
\* added to seen_domains and counted in total_urls, which is persisted
QuerySearch(j) ==
    /\ Ready(j, "q_search")
    /\ \/ /\ AddLog(j, "warning", "Search failed")
          /\ Raised(j)
          /\ Cont(j, AfterQuery(j, [L(j) EXCEPT !.errors = @ + 1]))
          /\ UNCHANGED counters
       \/ /\ Cont(j, AfterQuery(j, L(j)))
          /\ UNCHANGED <<counters, logs, nWarn, hist>>
       \/ \E new \in DistinctSeqs(config[j].web \ L(j).seen) :
             LET r == [L(j) EXCEPT !.seen = @ \cup {new[i] : i \in DOMAIN new},
                                   !.total = @ + Len(new),
                                   !.pending = new]
             IN /\ UpdateProgress(j, [total_urls |-> r.total])
                /\ IF new = <<>> THEN Cont(j, AfterQuery(j, r))
                   ELSE Cont(j, [loc |-> r, pc |-> "g_check"])
                /\ UNCHANGED <<logs, nWarn, hist>>
    /\ UNCHANGED <<status, dbRows>> /\ TaskFrame

\* 287 (not domain) and 367 (company_data.domain): a candidate without a
\* domain is not saved
HasDomain_Any(d) == TRUE
HasDomain(d) == d # ""

\* 313 and 378: _save_company is called with the company of domain d
SaveCalled(j, d) == hist' = [hist EXCEPT ![j].saves = Append(@, d)]

\* 266 and 369: the domain was met earlier in this run
SeenInRun_Never(d, seen) == FALSE
SeenInRun(d, seen) == d \in seen

\* 274: status check of the result loop
ItemCheck(j) ==
    /\ Ready(j, "g_check")
    /\ CheckJobStatus(j, "g_item")
    /\ UNCHANGED <<dbJob, dbRows, hist>> /\ TaskFrame

\* 327-333: the handler of the result loop
ItemExcept(j, r) ==
    LET r2 == [r EXCEPT !.errors = @ + 1, !.processed = @ + 1]
    IN /\ AddLog(j, "error", "Scrape error")
       /\ UpdateProgress(j, [processed_urls |-> r2.processed, errors_count |-> r2.errors])
       /\ Cont(j, AfterItem(j, r2))

\* 276-296: the result is skipped for its title (286-290), raises, or its
\* domain is looked up (293): a stored domain is skipped (294-296)
ItemLookup(j) ==
    /\ Ready(j, "g_item")
    /\ LET d == Head(L(j).pending)
           skip == [L(j) EXCEPT !.processed = @ + 1]
       IN \/ /\ UpdateProgress(j, [processed_urls |-> skip.processed])
             /\ Cont(j, AfterItem(j, skip))
             /\ UNCHANGED <<logs, nWarn, hist>>
          \/ /\ ItemExcept(j, L(j))
             /\ Raised(j)
          \/ /\ HasDomain(d)
             /\ IF \E c \in companies : c.domain = d
                THEN /\ UpdateProgress(j, [processed_urls |-> skip.processed])
                     /\ Cont(j, AfterItem(j, skip))
                     /\ UNCHANGED hist
                ELSE /\ Cont(j, [loc |-> [skip EXCEPT !.cur = d], pc |-> "c_create"])
                     /\ SaveCalled(j, d)
                     /\ UNCHANGED counters
             /\ UNCHANGED <<logs, nWarn>>
    /\ UNCHANGED <<status, dbRows>> /\ TaskFrame

\* ---------------------- company_service.create_company and _save_company
UniqueDomainOk_Unchecked(d) == TRUE
\* Company.domain is unique (models.py:26): the INSERT of a stored domain
\* fails with IntegrityError
UniqueDomainOk(d) == \A c \in companies : c.domain # d

Row(id) == CHOOSE c \in companies : c.id = id
HasRow(id) == \E c \in companies : c.id = id

\* company_service.create_company:130-132: the domain is looked up and an
\* existing row is returned
CreateLookup(j) ==
    /\ Ready(j, "c_create")
    /\ IF \E c \in companies : c.domain = L(j).cur
       THEN /\ Cont(j, [loc |-> [L(j) EXCEPT
                          !.saved = (CHOOSE c \in companies : c.domain = L(j).cur).id,
                          !.savedState =
                              (CHOOSE c \in companies : c.domain = L(j).cur).state,
                          !.inserted = FALSE],
                        pc |-> "c_enrich"])
       ELSE Goto(j, "c_insert") /\ UNCHANGED loc
    /\ UNCHANGED <<dbJob, dbRows, hist>> /\ TaskFrame

\* 393-395: the handler of the directory result loop
ResultExcept(j, r) ==
    Cont(j, AfterResult([r EXCEPT !.errors = @ + 1, !.processed = @ + 1]))

\* company_service.create_company:133-137: db.add(company); commit.  The
\* IntegrityError of a duplicate domain leaves create_company and
\* _save_company (engine.py:758) and reaches the handler of the result loop.
CreateInsert(j) ==
    /\ Ready(j, "c_insert")
    /\ IF UniqueDomainOk(L(j).cur)
       THEN \E st \in States :
               /\ companies' = companies \cup
                     {[id |-> nextId, domain |-> L(j).cur, job |-> j, state |-> st]}
               /\ nextId' = nextId + 1
               /\ Cont(j, [loc |-> [L(j) EXCEPT !.saved = nextId, !.savedState = st,
                                                !.inserted = TRUE],
                           pc |-> "c_enrich"])
               /\ UNCHANGED <<counters, logs, nWarn, hist>>
       ELSE /\ hist' = [hist EXCEPT ![j].dupInsert = TRUE, ![j].excs = @ + 1]
            /\ IF L(j).phase = "google"
               THEN ItemExcept(j, L(j))
               ELSE ResultExcept(j, L(j)) /\ UNCHANGED <<counters, logs, nWarn>>
            /\ UNCHANGED <<companies, nextId>>
    /\ UNCHANGED <<status, contacts>> /\ TaskFrame

\* engine._save_company:769-777 with _enrich_single_company:780-821: log
\* "Found", then the enrichment raises (caught at 774, log warning), finds no
\* state, or fills in the state of a row that has none
SaveEnrich(j) ==
    /\ Ready(j, "c_enrich")
    /\ \/ /\ AddLog(j, "warning", "Enrich failed")
          /\ Raised(j)
          /\ Goto(j, "c_loc")
          /\ UNCHANGED <<companies, loc>>
       \/ \E st \in States :
             /\ AddLog(j, IF st = "" THEN "warning" ELSE "info",
                          IF st = "" THEN "Enrichment returned no data" ELSE "Enriched")
             /\ IF st # "" /\ L(j).savedState = ""
                THEN /\ Cont(j, [loc |-> [L(j) EXCEPT !.savedState = st], pc |-> "c_loc"])
                     /\ IF HasRow(L(j).saved)
                        THEN companies' = (companies \ {Row(L(j).saved)})
                                            \cup {[Row(L(j).saved) EXCEPT !.state = st]}
                        ELSE UNCHANGED companies
                ELSE Goto(j, "c_loc") /\ UNCHANGED <<companies, loc>>
             /\ UNCHANGED hist
    /\ UNCHANGED <<status, counters, contacts, nextId>> /\ TaskFrame

\* 314-326 and 379-392: a saved company that does not match the location
\* filter is deleted and the loop continues; otherwise it is counted and the
\* progress is persisted
SaveLocation(j) ==
    /\ Ready(j, "c_loc")
    /\ IF ~LocationMatches(L(j).savedState, config[j].location)
       THEN /\ companies' = {c \in companies : c.id # L(j).saved}
            /\ contacts' = {c \in contacts : c.company # L(j).saved}
            /\ Cont(j, AfterSaved(j, L(j)))
            /\ UNCHANGED counters
       ELSE LET r == [L(j) EXCEPT !.found = @ + 1]
            IN /\ UpdateProgress(j, [processed_urls |-> r.processed,
                                     companies_found |-> r.found,
                                     errors_count |-> r.errors])
               /\ Cont(j, AfterSaved(j, r))
               /\ UNCHANGED <<companies, contacts>>
    /\ UNCHANGED <<status, logs, nWarn, nextId, hist>> /\ TaskFrame

\* ------------------------- _phase_discovery: the directory sources (339-405)
\* 349-351: status check of the scraper loop
SourceCheck(j) ==
    /\ Ready(j, "ds_check")
    /\ CheckJobStatus(j, "ds_log")
    /\ UNCHANGED <<dbJob, dbRows, hist>> /\ TaskFrame

\* 350: log "Searching <source>..."
SourceLog(j) ==
    /\ Ready(j, "ds_log")
    /\ AddLog(j, "info", "Searching source")
    /\ Goto(j, "di_check")
    /\ UNCHANGED <<status, counters, dbRows, loc, hist>> /\ TaskFrame

\* 354: status check of the industry loop
SourceIndustryCheck(j) ==
    /\ Ready(j, "di_check")
    /\ CheckJobStatus(j, "di_search")
    /\ UNCHANGED <<dbJob, dbRows, hist>> /\ TaskFrame

\* 355-359 and 397-398: dir_scraper.search raises (log warning, errors is
\* not incremented), returns nothing, or returns results
SourceSearch(j) ==
    /\ Ready(j, "di_search")
    /\ \/ /\ AddLog(j, "warning", "Directory search failed")
          /\ Raised(j)
          /\ Goto(j, "ds_end")
          /\ UNCHANGED loc
       \/ /\ Goto(j, "ds_end")
          /\ UNCHANGED <<loc, logs, nWarn, hist>>
       \/ \E n \in 1..Cardinality(Profiles) :
             /\ Cont(j, [loc |-> [L(j) EXCEPT !.nres = n], pc |-> "r_check"])
             /\ UNCHANGED <<logs, nWarn, hist>>
    /\ UNCHANGED <<status, counters, dbRows>> /\ TaskFrame

\* 362: status check of the result loop
ResultCheck(j) ==
    /\ Ready(j, "r_check")
    /\ CheckJobStatus(j, "r_scrape")
    /\ UNCHANGED <<dbJob, dbRows, hist>> /\ TaskFrame

\* 363-372, 387-396: scrape_company raises (393-395: counted in the locals
\* only), yields no usable company (progress persisted), a domain seen in
\* this run (continue), or a new domain
ResultScrape(j) ==
    /\ Ready(j, "r_scrape")
    /\ LET r == [L(j) EXCEPT !.processed = @ + 1]
       IN \/ /\ ResultExcept(j, L(j))
             /\ Raised(j)
             /\ UNCHANGED counters
          \/ /\ UpdateProgress(j, [processed_urls |-> r.processed,
                                   companies_found |-> r.found,
                                   errors_count |-> r.errors])
             /\ Cont(j, AfterResult(r))
             /\ UNCHANGED hist
          \/ \E d \in config[j].web :
                /\ HasDomain(d)
                /\ IF SeenInRun(d, r.seen)
                   THEN Cont(j, AfterResult(r))
                   ELSE Cont(j, [loc |-> [r EXCEPT !.seen = @ \cup {d}, !.cur = d],
                                 pc |-> "r_lookup"])
                /\ UNCHANGED <<counters, hist>>
    /\ UNCHANGED <<status, logs, nWarn, dbRows>> /\ TaskFrame

\* 374-375: a stored domain is skipped without persisting the progress
ResultLookup(j) ==
    /\ Ready(j, "r_lookup")
    /\ IF \E c \in companies : c.domain = L(j).cur
       THEN Cont(j, AfterResult(L(j))) /\ UNCHANGED hist
       ELSE Goto(j, "c_create") /\ SaveCalled(j, L(j).cur) /\ UNCHANGED loc
    /\ UNCHANGED <<dbJob, dbRows>> /\ TaskFrame

\* 400: log "<source>: found N new companies"; the next scraper or 402-405
SourceEnd(j) ==
    /\ Ready(j, "ds_end")
    /\ AddLog(j, "info", "Source done")
    /\ IF L(j).di < Len(DirScrapers(j))
       THEN Cont(j, [loc |-> [L(j) EXCEPT !.di = @ + 1], pc |-> "ds_check"])
       ELSE Goto(j, "d_done") /\ UNCHANGED loc
    /\ UNCHANGED <<status, counters, dbRows, hist>> /\ TaskFrame

DiscoveryDone_AnyTypeEnriches(j) ==
    /\ Ready(j, "d_done")
    /\ AddLog(j, "info", "Discovery complete")
    /\ Goto(j, "e_select")
    /\ UNCHANGED <<status, counters, dbRows, loc, hist>> /\ TaskFrame

\* 402-405: log "Discovery complete"; then _run_job:195-204 by job_type
DiscoveryDone(j) ==
    /\ Ready(j, "d_done")
    /\ AddLog(j, "info", "Discovery complete")
    /\ IF config[j].job_type = "full" THEN Goto(j, "e_select") ELSE Goto(j, "set_completed")
    /\ UNCHANGED <<status, counters, dbRows, loc, hist>> /\ TaskFrame

\* ------------------------------- _phase_data_enrichment (408-462)
\* the rows a SELECT returns, by primary key
RECURSIVE SortedIds(_)
SortedIds(S) ==
    IF S = {} THEN <<>>
    ELSE LET m == CHOOSE x \in S : \A y \in S : x <= y
         IN <<m>> \o SortedIds(S \ {m})

JobCompanyIds(j) == {c.id : c \in {x \in companies : x.job = j}}

\* 416-417: select(Company).where(Company.scrape_job_id == job_id)
DataSelect(j) ==
    /\ Ready(j, "de_select")
    /\ IF JobCompanyIds(j) = {}
       THEN Goto(j, "de_done") /\ UNCHANGED loc
       ELSE Cont(j, [loc |-> [L(j) EXCEPT !.todo = SortedIds(JobCompanyIds(j))],
                     pc |-> "de_check"])
    /\ UNCHANGED <<dbJob, dbRows, hist>> /\ TaskFrame

\* 421: status check of the company loop
DataCheck(j) ==
    /\ Ready(j, "de_check")
    /\ CheckJobStatus(j, "de_item")
    /\ UNCHANGED <<dbJob, dbRows, hist>> /\ TaskFrame

\* 423-460: enrich_company raises (log warning "Enrich failed"), or the
\* missing state is filled in and committed
DataItem(j) ==
    /\ Ready(j, "de_item")
    /\ LET id == Head(L(j).todo)
           nxt == IF Len(L(j).todo) > 1 THEN "de_check" ELSE "de_done"
       IN /\ \/ /\ AddLog(j, "warning", "Enrich failed")
                /\ Raised(j)
                /\ UNCHANGED companies
             \/ \E st \in States :
                   /\ IF st # "" /\ HasRow(id) /\ Row(id).state = ""
                      THEN /\ companies' = (companies \ {Row(id)})
                                             \cup {[Row(id) EXCEPT !.state = st]}
                           /\ AddLog(j, "info", "Enriched")
                      ELSE UNCHANGED <<companies, logs, nWarn>>
                   /\ UNCHANGED hist
          /\ Cont(j, [loc |-> [L(j) EXCEPT !.todo = Tail(@)], pc |-> nxt])
    /\ UNCHANGED <<status, counters, contacts, nextId>> /\ TaskFrame

\* 462: log "Data enrichment complete"
DataDone(j) ==
    /\ Ready(j, "de_done")
    /\ AddLog(j, "info", "Data enrichment complete")
    /\ Goto(j, "e_select")
    /\ UNCHANGED <<status, counters, dbRows, loc, hist>> /\ TaskFrame

\* ----------------------------------- _phase_enrichment (465-557)
\* what extract_contacts yields: ScrapedContact.email is a string, "" when
\* the page gave none (base.py:11)
Scraped == {[email |-> e, name |-> n] : e \in Emails, n \in Names}

RECURSIVE SeqsUpTo(_, _)
SeqsUpTo(S, n) ==
    IF n = 0 THEN {<<>>}
    ELSE {<<>>} \cup {<<x>> \o t : x \in S, t \in SeqsUpTo(S, n - 1)}

\* uq_contact_company_email (models.py:49-51) over a set of rows: SQL compares
\* NULL emails as distinct, every other value (the empty string too) as equal
\* to itself
ContactsUnique(rows) ==
    \A x, y \in rows :
        (x.id # y.id /\ x.company = y.company /\ x.email # NULL) => x.email # y.email

UniqueContactOk_Unchecked(company, email) == TRUE
\* the INSERT of a contact with this company and email passes the constraint
UniqueContactOk(company, email) ==
    ContactsUnique(contacts \cup {[id |-> nextId, company |-> company,
                                   email |-> email, name |-> ""]})

\* 466-471: log "Starting contact enrichment phase", select the companies
EnrichSelect(j) ==
    /\ Ready(j, "e_select")
    /\ AddLog(j, "info", "Starting contact enrichment phase")
    /\ IF JobCompanyIds(j) = {}
       THEN Goto(j, "e_done") /\ UNCHANGED loc
       ELSE Cont(j, [loc |-> [L(j) EXCEPT !.todo = SortedIds(JobCompanyIds(j)),
                                          !.contactsFound = 0],
                     pc |-> "e_check"])
    /\ UNCHANGED <<status, counters, dbRows, hist>> /\ TaskFrame

\* 532: status check of the batch loop
EnrichCheck(j) ==
    /\ Ready(j, "e_check")
    /\ CheckJobStatus(j, "e_gather")
    /\ UNCHANGED <<dbJob, dbRows, hist>> /\ TaskFrame

\* 533-540: the pages of the batch are fetched and parsed; a company whose
\* coroutine raised is skipped without a log entry
EnrichGather(j) ==
    /\ Ready(j, "e_gather")
    /\ LET ids == {L(j).todo[i] : i \in DOMAIN L(j).todo}
           found == {[company |-> id, email |-> c.email, name |-> c.name] :
                        id \in ids, c \in Scraped}
       IN \/ \E b \in SeqsUpTo(found, MaxContacts) :
                /\ Cont(j, [loc |-> [L(j) EXCEPT !.batch = b, !.bi = 1],
                            pc |-> IF b = <<>> THEN "e_commit" ELSE "e_insert"])
                /\ UNCHANGED hist
          \/ /\ Raised(j)
             /\ Cont(j, [loc |-> [L(j) EXCEPT !.batch = <<>>, !.bi = 1], pc |-> "e_commit"])
    /\ UNCHANGED <<dbJob, dbRows>> /\ TaskFrame

\* contact_service.create_contact:20-25 as called at 541-553: the insert of a
\* stored (company, email) pair raises IntegrityError, which is swallowed
\* with a rollback (the instances of the session expire); an inserted contact
\* is counted
EnrichInsert(j) ==
    /\ Ready(j, "e_insert")
    /\ LET c == L(j).batch[L(j).bi]
           nxt == IF L(j).bi < Len(L(j).batch) THEN "e_insert" ELSE "e_commit"
       IN IF UniqueContactOk(c.company, c.email)
          THEN /\ contacts' = contacts \cup
                     {[id |-> nextId, company |-> c.company, email |-> c.email,
                       name |-> c.name]}
               /\ nextId' = nextId + 1
               /\ Cont(j, [loc |-> [L(j) EXCEPT !.bi = @ + 1, !.contactsFound = @ + 1],
                           pc |-> nxt])
          ELSE /\ Cont(j, [loc |-> Expired([L(j) EXCEPT !.bi = @ + 1]), pc |-> nxt])
               /\ UNCHANGED <<contacts, nextId>>
    /\ UNCHANGED <<dbJob, companies, hist>> /\ TaskFrame

\* 554-555: commit; update_job_progress(contacts_found=...), whose get_job
\* loads the job row again when the instance is expired
EnrichCommit(j) ==
    /\ Ready(j, "e_commit")
    /\ UpdateProgress(j, [contacts_found |-> L(j).contactsFound])
    /\ Cont(j, [loc |-> [L(j) EXCEPT !.todo = <<>>, !.batch = <<>>, !.bi = 0,
                                     !.jobStatus = SessionStatus(j)],
                pc |-> "e_done"])
    /\ UNCHANGED <<status, logs, nWarn, dbRows, hist>> /\ TaskFrame

\* 557: log "Enrichment complete"; then _run_job:201-204
EnrichDone(j) ==
    /\ Ready(j, "e_done")
    /\ AddLog(j, "info", "Enrichment complete")
    /\ IF config[j].patterns THEN Goto(j, "p_select") ELSE Goto(j, "set_completed")
    /\ UNCHANGED <<status, counters, dbRows, loc, hist>> /\ TaskFrame

\* ----------------------------------- _phase_email_patterns (560-596)
\* e.endswith("@" + domain) for the addresses of Emails and the guesses
AtDomain(e, domain) ==
    \/ e \in {"jane.doe@" \o domain, "janedoe@" \o domain}
    \/ e = "bob@acme.com" /\ domain = "acme.com"

\* "." in the local part
Dotted(e) == e \in {"jane.doe@" \o d : d \in Domains}

\* email_discoverer.discover_email_pattern:19-45 over these addresses: none
\* has an underscore, a one-letter first part or a local part of two letters
DiscoverPattern(known, domain) ==
    LET domain_emails == {e \in known : AtDomain(e, domain)}
    IN IF domain_emails = {} THEN "none"
       ELSE IF \E e \in domain_emails : Dotted(e) THEN "{first}.{last}"
       ELSE "{first}{last}"

\* email_discoverer._apply_pattern:77-82 for the contact "Jane Doe"
ApplyPattern(pattern, domain) ==
    IF pattern = "{first}{last}" THEN "janedoe@" \o domain ELSE "jane.doe@" \o domain

\* generate_email_candidates(...)[0][0] (48-74): no candidate without first
\* and last name; the detected pattern comes first, PATTERNS[0] otherwise
BestCandidate(name, domain, known) ==
    IF name = "" THEN NULL
    ELSE IF DiscoverPattern(known, domain) # "none"
         THEN ApplyPattern(DiscoverPattern(known, domain), domain)
         ELSE ApplyPattern("{first}.{last}", domain)

\* 578-592: a contact without an email that has both names gets the best guess
Guessed(c, domain, known) ==
    IF c.email \in {"", NULL} /\ BestCandidate(c.name, domain, known) # NULL
    THEN [c EXCEPT !.email = BestCandidate(c.name, domain, known)]
    ELSE c

\* 561-567: log "Starting email pattern matching", select the companies
PatternSelect(j) ==
    /\ Ready(j, "p_select")
    /\ AddLog(j, "info", "Starting email pattern matching")
    /\ IF JobCompanyIds(j) = {}
       THEN Goto(j, "p_done") /\ UNCHANGED loc
       ELSE Cont(j, [loc |-> [L(j) EXCEPT !.todo = SortedIds(JobCompanyIds(j))],
                     pc |-> "p_check"])
    /\ UNCHANGED <<status, counters, dbRows, hist>> /\ TaskFrame

\* 571: status check of the company loop
PatternCheck(j) ==
    /\ Ready(j, "p_check")
    /\ CheckJobStatus(j, "p_company")
    /\ UNCHANGED <<dbJob, dbRows, hist>> /\ TaskFrame

\* 575-594: the guesses are assigned and committed.  The loop has no
\* handler: the IntegrityError of a guess that equals a stored address of the
\* company leaves the phase and reaches `except Exception` of _run_job (210).
PatternCompany(j) ==
    /\ Ready(j, "p_company")
    /\ LET id == Head(L(j).todo)
           nxt == IF Len(L(j).todo) > 1 THEN "p_check" ELSE "p_done"
           known == {c.email : c \in {x \in contacts : x.company = id}} \ {"", NULL}
           new == {IF c.company = id THEN Guessed(c, Row(id).domain, known) ELSE c :
                      c \in contacts}
       IN IF ContactsUnique(new)
          THEN /\ contacts' = new
               /\ Cont(j, [loc |-> [L(j) EXCEPT !.todo = Tail(@)], pc |-> nxt])
               /\ UNCHANGED hist
          ELSE /\ Raised(j)
               /\ Goto(j, "h_fail")
               /\ UNCHANGED <<contacts, loc>>
    /\ UNCHANGED <<dbJob, companies, nextId>> /\ TaskFrame

\* 596: log "Email patterns: generated N guesses"; then _run_job:204
PatternDone(j) ==
    /\ Ready(j, "p_done")
    /\ AddLog(j, "info", "Email patterns done")
    /\ Goto(j, "set_completed")
    /\ UNCHANGED <<status, counters, dbRows, loc, hist>> /\ TaskFrame

\* ------------------------------------------------------ the pipeline task
RunJobCompleted(j) ==
    \/ RunGetJob(j) \/ RunSetRunning(j) \/ RunLogStarted(j) \/ Enter(j)
    \/ RunSetCompleted(j) \/ RunLogCompleted(j) \/ RunReturn(j)

RunJobCancelled(j) == RaiseCancelled(j) \/ HandleCancelStatus(j) \/ HandleCancelLog(j)

RunJobFailed(j) == HandleFailStatus(j) \/ HandleFailLog(j)

RunJob(j) == RunJobCompleted(j) \/ RunJobCancelled(j)

Paused(j) == Poll(j)

GeneralSearch(j) ==
    \/ IndustryCheck(j) \/ IndustryLog(j) \/ QueryCheck(j) \/ QuerySearch(j)
    \/ ItemCheck(j) \/ ItemLookup(j)

SaveCompany(j) ==
    \/ CreateLookup(j) \/ CreateInsert(j) \/ SaveEnrich(j) \/ SaveLocation(j)

Directories(j) ==
    \/ SourceCheck(j) \/ SourceLog(j) \/ SourceIndustryCheck(j) \/ SourceSearch(j)
    \/ ResultCheck(j) \/ ResultScrape(j) \/ ResultLookup(j) \/ SourceEnd(j)

DataEnrichment(j) == DataSelect(j) \/ DataCheck(j) \/ DataItem(j) \/ DataDone(j)

ContactEnrichment(j) ==
    \/ EnrichSelect(j) \/ EnrichCheck(j) \/ EnrichGather(j) \/ EnrichInsert(j)
    \/ EnrichCommit(j) \/ EnrichDone(j)

EmailPatterns(j) ==
    \/ PatternSelect(j) \/ PatternCheck(j) \/ PatternCompany(j) \/ PatternDone(j)

\* ------------------------------------------------------- specifications
JobIds == DOMAIN status

\* Jobs created through POST /api/jobs (jobs.py:52-69) of the running
\* application: status pending, the counters 0, no log entry, no task.
NewJobs(J, configs) ==
    /\ up = TRUE
    /\ status = [j \in J |-> "pending"]
    /\ config \in [J -> configs]
    /\ counters = [j \in J |-> ZeroCounters]
    /\ logs = [j \in J |-> {}]
    /\ nWarn = [j \in J |-> 0]
    /\ loc = [j \in J |-> InitLoc]
    /\ mustCancel = [j \in J |-> FALSE]
    /\ req = [j \in J |-> [k \in Kinds |-> Idle]]
    /\ nreq = 0
    /\ last = NoResponse
    /\ hist = [j \in J |-> InitHist]

\* The jobs of J after engine.start_job: the task exists and has not run yet.
Started(J) ==
    /\ activeJobs = J
    /\ pc = [j \in J |-> "created"]

EmptyStore ==
    /\ companies = {}
    /\ contacts = {}
    /\ nextId = 1

\* Specification Spec: one discovery job, the requests of the job router and
\* the pipeline task interleave freely.  The searches return a company site,
\* with or without a result that has no domain.
LifeConfigs ==
    {[job_type |-> "discovery", location |-> l, sources |-> {src},
      queries |-> <<"q1">>, web |-> w, patterns |-> TRUE] :
        l \in Locations, src \in {"google", "thomasnet"},
        w \in {{"acme.com"}, {"", "acme.com"}}}

LifeJobs == {1}

Init ==
    /\ NewJobs(LifeJobs, LifeConfigs)
    /\ KeyManagerNew({1}) /\ http = NoCall /\ gate = NoGate /\ fn = NoFn
    /\ EmptyStore
    /\ activeJobs = {}
    /\ pc = [j \in LifeJobs |-> "none"]

Next ==
    \E j \in LifeJobs :
        \/ Request(j)
        \/ RunJob(j) \/ GeneralSearch(j) \/ SaveCompany(j)
        \/ Directories(j) \/ DiscoveryDone(j)

Spec == Init /\ [][Next]_vars

\* Specification SpecPipe: one job of any type that runs all its phases, with
\* email pattern matching enabled or not; no request arrives.  A discovery or
\* full job starts on an empty store, an enrichment job on the company that
\* was stored for it.
PipeJobs == {1}

PipeConfigs ==
    {[job_type |-> t, location |-> "", sources |-> {src},
      queries |-> <<"q1">>, web |-> {"acme.com"}, patterns |-> e] :
        t \in {"discovery", "full", "enrichment"}, src \in {"google", "thomasnet"},
        e \in BOOLEAN}

JobCompany(j) == [id |-> 1, domain |-> "acme.com", job |-> j, state |-> ""]

InitPipe ==
    /\ NewJobs(PipeJobs, PipeConfigs)
    /\ KeyManagerNew({1}) /\ http = NoCall /\ gate = NoGate /\ fn = NoFn
    /\ Started(PipeJobs)
    /\ \A j \in PipeJobs :
          config[j].job_type = "enrichment" => config[j].sources = {"google"}
    /\ IF \E j \in PipeJobs : config[j].job_type = "enrichment"
       THEN companies = {JobCompany(j) : j \in PipeJobs} /\ contacts = {} /\ nextId = 2
       ELSE EmptyStore

NextPipe ==
    \E j \in PipeJobs :
        \/ RunJobCompleted(j) \/ RunJobFailed(j) \/ GeneralSearch(j) \/ SaveCompany(j)
        \/ Directories(j) \/ DiscoveryDone(j) \/ DataEnrichment(j)
        \/ ContactEnrichment(j) \/ EmailPatterns(j)

SpecPipe == InitPipe /\ [][NextPipe]_vars

\* Specification SpecDisc: two discovery jobs whose tasks run concurrently over
\* the same search results, job 1 through the general search and job 2
\* through a directory; no request arrives.  The store is empty or holds the
\* company of an earlier job.
DiscJobs == {1, 2}

DiscConfigs ==
    {[job_type |-> "discovery", location |-> "", sources |-> {src},
      queries |-> <<"q1">>, web |-> Domains, patterns |-> TRUE] :
        src \in {"google", "thomasnet"}}

EarlierCompany == [id |-> 1, domain |-> "acme.com", job |-> 0, state |-> ""]

InitDisc ==
    /\ NewJobs(DiscJobs, DiscConfigs)
    /\ KeyManagerNew({1}) /\ http = NoCall /\ gate = NoGate /\ fn = NoFn
    /\ config[1].sources = {"google"} /\ config[2].sources = {"thomasnet"}
    /\ Started(DiscJobs)
    /\ \/ EmptyStore
       \/ companies = {EarlierCompany} /\ contacts = {} /\ nextId = 2

NextDisc ==
    \E j \in DiscJobs :
        \/ RunJobCompleted(j) \/ GeneralSearch(j) \/ SaveCompany(j)
        \/ Directories(j) \/ DiscoveryDone(j)

SpecDisc == InitDisc /\ [][NextDisc]_vars

\* Specification SpecPause: one enrichment job on the company that was stored
\* for it; the requests of the job router and the pipeline task interleave
\* freely.
PauseJobs == {1}

PauseConfigs ==
    {[job_type |-> "enrichment", location |-> "", sources |-> {"google"},
      queries |-> <<"q1">>, web |-> {"acme.com"}, patterns |-> TRUE]}

InitPause ==
    /\ NewJobs(PauseJobs, PauseConfigs)
    /\ KeyManagerNew({1}) /\ http = NoCall /\ gate = NoGate /\ fn = NoFn
    /\ companies = {JobCompany(j) : j \in PauseJobs} /\ contacts = {} /\ nextId = 2
    /\ activeJobs = {}
    /\ pc = [j \in PauseJobs |-> "none"]

NextPause ==
    \E j \in PauseJobs :
        \/ Request(j)
        \/ RunJob(j) \/ RunJobFailed(j) \/ Paused(j)
        \/ DataEnrichment(j) \/ ContactEnrichment(j) \/ EmailPatterns(j)

SpecPause == InitPause /\ [][NextPause]_vars

\* Specification SpecLive: SpecPause under the scheduling of the event loop.
\* A task that can take its next step takes it (every awaited call returns),
\* a handler of the job router that has read the job goes on to its commit
\* and to engine.cancel_job, and a job in status paused does not stay
\* paused: a resume or a cancel request arrives.  Which further requests
\* arrive, and when, is left open.
TaskStep(j) ==
    \/ RunJob(j) \/ RunJobFailed(j) \/ Paused(j)
    \/ DataEnrichment(j) \/ ContactEnrichment(j) \/ EmailPatterns(j)

HandlerStep(j) == PauseCommit(j) \/ ResumeCommit(j) \/ CancelCommit(j) \/ CancelEngine(j)

PausedIsLeft(j) == (status[j] = "paused") ~> (status[j] # "paused")

SpecLive ==
    /\ InitPause /\ [][NextPause]_vars
    /\ \A j \in PauseJobs :
          WF_vars(TaskStep(j)) /\ WF_vars(HandlerStep(j)) /\ PausedIsLeft(j)

\* main.lifespan:14-17: the startup of the process runs init_db
\* (database.py:14-18), which creates the missing tables and leaves the rows
\* as they are; nothing else runs before the application serves requests.
Lifespan ==
    /\ ~up
    /\ up' = TRUE
    /\ UNCHANGED <<dbJob, dbRows, config, keyVars, http, gate, fn, activeJobs, pc, loc,
                   mustCancel, reqVars, hist>>

\* engine.cleanup_stale_jobs:151-155: the status the UPDATE leaves in a row
StaleCleaned(s) == IF s \in {"running", "pending"} THEN "failed" ELSE s

\* engine.cleanup_stale_jobs:147-158.  No code of the application calls it.
CleanupStaleJobs ==
    /\ status' = [j \in JobIds |-> StaleCleaned(status[j])]
    /\ UNCHANGED <<counters, logs, nWarn, dbRows, cfgVars, activeJobs, pc, loc,
                   mustCancel, reqVars, hist>>

\* Specification SpecBoot: a process starts on the job row an earlier process
\* left in any status; no task exists.  After the startup the requests of the
\* job router and the pipeline task interleave as in Spec.
BootJobs == {1}

InitBoot ==
    /\ up = FALSE
    /\ KeyManagerNew({1}) /\ http = NoCall /\ gate = NoGate /\ fn = NoFn
    /\ status \in [BootJobs -> Status]
    /\ config \in [BootJobs -> LifeConfigs]
    /\ counters = [j \in BootJobs |-> ZeroCounters]
    /\ logs = [j \in BootJobs |-> {}]
    /\ nWarn = [j \in BootJobs |-> 0]
    /\ loc = [j \in BootJobs |-> InitLoc]
    /\ mustCancel = [j \in BootJobs |-> FALSE]
    /\ req = [j \in BootJobs |-> [k \in Kinds |-> Idle]]
    /\ nreq = 0
    /\ last = NoResponse
    /\ hist = [j \in BootJobs |-> InitHist]
    /\ EmptyStore
    /\ activeJobs = {}
    /\ pc = [j \in BootJobs |-> "none"]

NextBoot ==
    \/ Lifespan
    \/ \E j \in BootJobs :
          \/ Request(j)
          \/ RunJob(j) \/ GeneralSearch(j) \/ SaveCompany(j)
          \/ Directories(j) \/ DiscoveryDone(j)

SpecBoot == InitBoot /\ [][NextBoot]_vars

\* Specification SpecKeys: the key manager with 0 to MaxKeys keys, its public
\* operations called in any order, two collaborators that call serper_search
\* concurrently, and the sources that send their requests themselves.  No job
\* exists.
NoJobs == {}

InitKeys ==
    /\ NewJobs(NoJobs, LifeConfigs)
    /\ EmptyStore
    /\ activeJobs = {}
    /\ pc = [j \in NoJobs |-> "none"]
    /\ KeyManagerNew(0 .. MaxKeys) /\ http = NoCall /\ gate = NoGate /\ fn = NoFn

NextKeys ==
    \/ KeyManager
    \/ \E c \in Callers : SearchCall(c) \/ SearchResponse(c)
    \/ \E c \in DirectSources : DirectPost(c)

SpecKeys == InitKeys /\ [][NextKeys]_vars

\* Specification SpecHttp: one call of HttpClient.get, for every kind of URL,
\* with the robots gate enabled or not and max_retries from 0 to MaxRetries.
InitHttp ==
    /\ NewJobs(NoJobs, LifeConfigs)
    /\ EmptyStore
    /\ activeJobs = {}
    /\ pc = [j \in NoJobs |-> "none"]
    /\ KeyManagerNew({0})
    /\ http \in {NewCall(u, r, m) : u \in Urls, r \in BOOLEAN, m \in 0 .. MaxRetries}
    /\ gate = NoGate /\ fn = NoFn

NextHttp == HttpRobots \/ HttpRate \/ HttpGet \/ HttpBackoff

SpecHttp == InitHttp /\ [][NextHttp]_vars

\* Specification SpecGate: the HttpClients of two jobs call get concurrently,
\* and the contact phase fetches pages, with the robots gate enabled or not.
InitGate ==
    /\ NewJobs(NoJobs, LifeConfigs)
    /\ EmptyStore
    /\ activeJobs = {}
    /\ pc = [j \in NoJobs |-> "none"]
    /\ KeyManagerNew({0}) /\ http = NoCall
    /\ gate \in {[NoGate EXCEPT !.respect = r] : r \in BOOLEAN}
    /\ fn = NoFn

NextGate ==
    \/ \E c \in GateClients :
          \/ GateCall(c) \/ IsAllowed(c) \/ FetchRobots(c) \/ RateLock(c)
          \/ BucketAcquire(c) \/ BucketSleep(c) \/ Jitter(c) \/ GateGet(c)
    \/ FetchPage
    \/ DayPasses

SpecGate == InitGate /\ [][NextGate]_vars

\* Specification SpecEmail: the email-pattern step for one contact without an
\* address, for every choice of its names and of the addresses stored for
\* the other contacts of the company.
InitEmail ==
    /\ NewJobs(NoJobs, LifeConfigs)
    /\ EmptyStore
    /\ activeJobs = {}
    /\ pc = [j \in NoJobs |-> "none"]
    /\ KeyManagerNew({0}) /\ http = NoCall /\ gate = NoGate
    /\ fn \in {NewGuess(a, b, k) : a \in FirstNames, b \in LastNames, k \in KnownLists}

NextEmail == GuessDiscover \/ GuessGenerate \/ GuessAssign \/ GuessNone

SpecEmail == InitEmail /\ [][NextEmail]_vars

\* Specification SpecEnrich: one call of enrich_company, with or without a
\* configured key, for every reply of its searches.
InitEnrich ==
    /\ NewJobs(NoJobs, LifeConfigs)
    /\ EmptyStore
    /\ activeJobs = {}
    /\ pc = [j \in NoJobs |-> "none"]
    /\ KeyManagerNew({0}) /\ http = NoCall /\ gate = NoGate
    /\ fn \in {NewEnrich(k) : k \in BOOLEAN}

NextEnrich == EnrichHasKeys \/ EnrichFirst \/ EnrichSecond \/ EnrichReturn

SpecEnrich == InitEnrich /\ [][NextEnrich]_vars

\* Specification SpecMerge: one merge of enrichment data into a stored
\* company, or of a company's page into the draft of a directory adapter.
InitMerge ==
    /\ NewJobs(NoJobs, LifeConfigs)
    /\ EmptyStore
    /\ activeJobs = {}
    /\ pc = [j \in NoJobs |-> "none"]
    /\ KeyManagerNew({0}) /\ http = NoCall /\ gate = NoGate
    /\ fn \in {NewMerge("enrich", c, d) : c \in Companies, d \in EnrichData}
              \cup {NewMerge("page", c, d) : c \in Drafts, d \in ScrapedPages}

NextMerge == MergeEnrichment \/ MergePage

SpecMerge == InitMerge /\ [][NextMerge]_vars

\* Specification SpecDir: one search result handed to an adapter and, when
\* the adapter makes a company of it, saved by the engine.
InitDir ==
    /\ NewJobs(NoJobs, LifeConfigs)
    /\ EmptyStore
    /\ activeJobs = {}
    /\ pc = [j \in NoJobs |-> "none"]
    /\ KeyManagerNew({0}) /\ http = NoCall /\ gate = NoGate
    /\ fn \in {NewScrape("kompass", s, p, l, FALSE) :
                   s \in Snippets, p \in Pages("kompass"), l \in LinkLists}
              \cup UNION {{NewScrape(a, NoSnippet, p, l, FALSE) :
                              p \in Pages(a), l \in LinkLists} :
                          a \in DirectoryAdapters \ {"kompass"}}
              \cup {NewScrape("google_search", NoSnippet, NoPage, <<n>>, deep) :
                   n \in Netlocs, deep \in BOOLEAN}

NextDir ==
    SnippetStep \/ PageStep \/ WebsiteSearch \/ SaveDirectory \/ SearchFilter \/ SaveGeneral

SpecDir == InitDir /\ [][NextDir]_vars

\* Specification SpecRevenue: the company list is asked for under each
\* revenue bracket, one stored company with its revenue string.
InitRevenue ==
    /\ NewJobs(NoJobs, LifeConfigs)
    /\ EmptyStore
    /\ activeJobs = {}
    /\ pc = [j \in NoJobs |-> "none"]
    /\ KeyManagerNew({0}) /\ http = NoCall /\ gate = NoGate
    /\ fn \in {NewListing(r) : r \in RevenueStrings}

NextRevenue == \E b \in DOMAIN REVENUE_BRACKETS : GetCompanies(b)

SpecRevenue == InitRevenue /\ [][NextRevenue]_vars

\* Specification SpecQueries: two calls of generate_queries for the same
\* industry and location.
InitQueries ==
    /\ NewJobs(NoJobs, LifeConfigs)
    /\ EmptyStore
    /\ activeJobs = {}
    /\ pc = [j \in NoJobs |-> "none"]
    /\ KeyManagerNew({0}) /\ http = NoCall /\ gate = NoGate
    /\ fn \in {NewQueries(i, l) : i \in IndustryNames, l \in QueryLocations}

NextQueries == GenTemplates \/ GenCurated \/ GenCustom

SpecQueries == InitQueries /\ [][NextQueries]_vars

\* Specification SpecLocation: one call of _location_matches.
InitLocation ==
    /\ NewJobs(NoJobs, LifeConfigs)
    /\ EmptyStore
    /\ activeJobs = {}
    /\ pc = [j \in NoJobs |-> "none"]
    /\ KeyManagerNew({0}) /\ http = NoCall /\ gate = NoGate
    /\ fn \in {NewMatch(s, c, f) : s \in CompanyStates, c \in CompanyCities, f \in Filters}

NextLocation == MatchNoFilter \/ MatchNormalize \/ MatchDecide

SpecLocation == InitLocation /\ [][NextLocation]_vars

\* ------------------------------------------------- properties of the jobs
NonTerminal == Status \ Terminal

\* the status changes of section 4.8: pending -> running, running -> paused,
\* paused -> running, and a non-terminal status -> a terminal one
AllowedMoves ==
    {<<"pending", "running">>, <<"running", "paused">>, <<"paused", "running">>}
        \cup (NonTerminal \X Terminal)

\* C1: a job's status changes only along pending -> running, running ->
\* paused, paused -> running, or from a non-terminal status to completed,
\* failed or cancelled; a terminal status is never changed again, by a request
\* or by a step of the task.
C1_StatusMoves ==
    [][\A j \in JobIds :
          status'[j] # status[j] => <<status[j], status'[j]>> \in AllowedMoves]_vars

NoRequestInFlight(j) == \A k \in Kinds : req[j][k].stage = "idle"

\* C2: after a cancel request has succeeded on a job whose task was active,
\* the job ends cancelled with the log entry "Job cancelled": once the task
\* has ended and no request is in flight, the status is cancelled and the
\* entry is there.
C2_CancelEndsCancelled ==
    \A j \in JobIds :
        (hist[j].cancelActive /\ ~Alive(j) /\ NoRequestInFlight(j))
            => (status[j] = "cancelled" /\ "Job cancelled" \in logs[j])

JobRows(j) == {c \in companies : c.job = j}
JobContacts(j) == {c \in contacts : \E r \in JobRows(j) : r.id = c.company}

\* C3: once a cancel request that found the job running has returned, no
\* progress counter of the job changes again and the job's Company and
\* Contact rows stay as they are: nothing is added and nothing written
\* before is lost.
C3_CancelFreezesProgress ==
    [][\A j \in JobIds :
          hist[j].cancelRunning =>
              /\ counters'[j] = counters[j]
              /\ JobRows(j)' = JobRows(j)
              /\ JobContacts(j)' = JobContacts(j)]_vars

\* a cancel request on the running job returned after the job had persisted
\* progress and a company, which are still there when the task has ended
C3_Witness ==
    \E j \in JobIds :
        /\ hist[j].cancelRunning
        /\ ~Alive(j)
        /\ counters[j].companies_found > 0
        /\ JobRows(j) # {}

\* the step in which the handler of kind k reads the job and accepts
Accepted(j, k) == req[j][k].stage = "idle" /\ req'[j][k].stage = "read"

\* the step in which the handler of kind k reads the job and rejects
Rejected(j, k) ==
    /\ nreq' = nreq + 1
    /\ req' = req
    /\ last'.kind = k /\ last'.job = j

\* the step in which the handler of kind k commits its write and returns
Committed(j, k) == req[j][k].stage = "read" /\ req'[j][k].stage # "read"

JobUnchanged(j) ==
    /\ status'[j] = status[j]
    /\ counters'[j] = counters[j]
    /\ logs'[j] = logs[j]

\* C4: a pause request succeeds only when it finds the status running, and
\* then sets it to paused; in every other status it is rejected with an error
\* and leaves the job unchanged.
C4_Pause ==
    [][\A j \in JobIds :
          /\ Accepted(j, "pause") => status[j] = "running"
          /\ Committed(j, "pause") =>
                (status'[j] = "paused" /\ last' = [kind |-> "pause", job |-> j, code |-> 200])
          /\ Rejected(j, "pause") =>
                (status[j] # "running" /\ last'.code = 400 /\ JobUnchanged(j))]_vars

\* a pause request has paused the running job
C4_Witness ==
    \E j \in JobIds :
        /\ last = [kind |-> "pause", job |-> j, code |-> 200]
        /\ status[j] = "paused"
        /\ Alive(j)

\* C5: a resume request succeeds only when it finds the status paused, and
\* then sets it to running; in every other status it is rejected with an
\* error and leaves the job unchanged.
C5_Resume ==
    [][\A j \in JobIds :
          /\ Accepted(j, "resume") => status[j] = "paused"
          /\ Committed(j, "resume") =>
                (status'[j] = "running" /\ last' = [kind |-> "resume", job |-> j, code |-> 200])
          /\ Rejected(j, "resume") =>
                (status[j] # "paused" /\ last'.code = 400 /\ JobUnchanged(j))]_vars

\* a resume request has set the paused job running again
C5_Witness ==
    \E j \in JobIds :
        /\ last = [kind |-> "resume", job |-> j, code |-> 200]
        /\ status[j] = "running"
        /\ Alive(j)

\* C6: a cancel request that finds the job pending, running or paused is
\* accepted and sets the status to cancelled; one that finds it completed or
\* cancelled is rejected with an error, changes nothing of the job and
\* delivers no cancellation to any task.
C6_Cancel ==
    [][\A j \in JobIds :
          /\ (nreq' = nreq + 1 /\ status[j] \in {"pending", "running", "paused"}
                /\ (Rejected(j, "cancel") \/ req'[j]["cancel"] # req[j]["cancel"]))
                => Accepted(j, "cancel")
          /\ Accepted(j, "cancel") => status[j] \notin {"completed", "cancelled"}
          /\ Committed(j, "cancel") => status'[j] = "cancelled"
          /\ (req[j]["cancel"].stage = "committed" /\ req'[j]["cancel"].stage = "idle")
                => last' = [kind |-> "cancel", job |-> j, code |-> 200]
          /\ Rejected(j, "cancel") =>
                /\ status[j] \in {"completed", "cancelled"}
                /\ last'.code = 400
                /\ JobUnchanged(j)
                /\ mustCancel' = mustCancel /\ pc' = pc]_vars

\* a cancel request was rejected for a cancelled job whose task is still in
\* its handler and has no cancellation pending
C6_Witness ==
    \E j \in JobIds :
        /\ last = [kind |-> "cancel", job |-> j, code |-> 400]
        /\ status[j] = "cancelled"
        /\ Alive(j) /\ ~mustCancel[j]

\* ------------------------------------------- properties of the company rows
\* C7: however the create_company calls of concurrently running discovery
\* tasks interleave, no two Company rows have the same domain.
C7_OneRowPerDomain ==
    \A a, b \in companies : a.domain = b.domain => a = b

\* both tasks have ended, one of them ran into the row the other had just
\* inserted, and the domain has one row
C7_Witness ==
    /\ \A j \in JobIds : ~Alive(j)
    /\ \E j \in JobIds : hist[j].dupInsert
    /\ \A d \in Domains : Cardinality({c \in companies : c.domain = d}) = 1

\* task j is in create_company for a domain that has a row
MeetsStoredDomain(j) ==
    /\ pc[j] \in {"c_create", "c_insert"}
    /\ ~mustCancel[j]
    /\ \E c \in companies : c.domain = loc[j].cur

\* C8: create_company for a domain that has a row, stored earlier or
\* inserted by another task in the meantime, returns that row and is silent:
\* no row is inserted or changed, no error reaches the caller (no warning or
\* error log entry, no error counted) and the job does not fail.
C8_StoredDomainIsNoOp ==
    [][\A j \in JobIds :
          (MeetsStoredDomain(j) /\ pc'[j] # pc[j]) =>
              /\ companies' = companies
              /\ pc'[j] = "c_enrich"
              /\ \E c \in companies : c.domain = loc[j].cur /\ loc'[j].saved = c.id
              /\ nWarn'[j] = nWarn[j]
              /\ loc'[j].errors = loc[j].errors
              /\ hist'[j].excs = hist[j].excs]_vars

\* ------------------------------------------- properties of the contact rows
SamePair(x, y) == x.company = y.company /\ x.email = y.email

Stored(c) == \E x \in contacts : SamePair(x, c)

\* the step in which task j inserts the contact its batch loop is at
InsertStep(j) == pc[j] = "e_insert" /\ ~mustCancel[j] /\ pc'[j] # pc[j]

C10_ItemErrorsHandled ==
    \A j \in JobIds :
        /\ status[j] # "failed"
        /\ pc[j] = "done" =>
              /\ nWarn[j] >= hist[j].excs
              /\ counters[j].errors_count >= hist[j].excs

\* ------------------------------------------ properties of the pipeline run
\* the step in which the task of job j leaves the event loop
RunEnds(j) == Alive(j) /\ ~Alive(j)'

\* C11: a pipeline run ends in exactly one terminal status.  When the task
\* returns after line 205 the status is completed and the entry "Job completed
\* successfully" is there; when it returns from `except Exception` the status
\* is failed; when the cancellation signal was raised (the task returns from
\* `except asyncio.CancelledError`, or the signal ends it) the status is
\* cancelled.
C11_RunEndsInOneStatus ==
    [][\A j \in JobIds :
          RunEnds(j) =>
              /\ status'[j] \in Terminal
              /\ pc[j] = "finishing" /\ pc'[j] = "done" =>
                    /\ status'[j] = "completed"
                    /\ "Job completed successfully" \in logs'[j]
              /\ pc[j] = "h_fail_log" /\ pc'[j] = "done" => status'[j] = "failed"
              /\ pc[j] = "h_cancel_log" \/ pc'[j] = "killed" =>
                    status'[j] = "cancelled"]_vars

\* the phase a task suspended at pc p is in: 0 before the first phase, 1
\* discovery, 2 data enrichment, 3 contact enrichment, 4 email pattern
\* matching, 5 after the last phase
DataPcs == {"de_select", "de_check", "de_item", "de_done"}
ContactPcs == {"e_select", "e_check", "e_gather", "e_insert", "e_commit", "e_done"}
PatternPcs == {"p_select", "p_check", "p_company", "p_done"}
BeforePcs == {"none", "created", "set_running", "log_started", "enter"}
AfterPcs == {"set_completed", "log_completed", "finishing", "done", "killed",
             "h_cancel", "h_cancel_log", "h_fail", "h_fail_log"}

PhaseAt(p) ==
    CASE p \in BeforePcs -> 0
      [] p \in DataPcs -> 2
      [] p \in ContactPcs -> 3
      [] p \in PatternPcs -> 4
      [] p \in AfterPcs -> 5
      [] OTHER -> 1

PhaseOf(j) == PhaseAt(IF pc[j] = "poll" THEN L(j).ret ELSE pc[j])

\* the phases section 4.4 allows for a job type
Applicable(j) ==
    (IF config[j].job_type \in {"discovery", "full"} THEN {1} ELSE {})
    \cup (IF config[j].job_type = "enrichment" THEN {2} ELSE {})
    \cup (IF config[j].job_type \in {"enrichment", "full"} THEN {3} ELSE {})
    \cup (IF config[j].job_type \in {"enrichment", "full"} /\ config[j].patterns
          THEN {4} ELSE {})

\* the first applicable phase after phase n, 5 when there is none
NextPhase(j, n) ==
    LET later == {m \in Applicable(j) : m > n}
    IN IF later = {} THEN 5 ELSE CHOOSE m \in later : \A k \in later : m <= k

\* C12: the phases run in the order discovery, data enrichment, contact
\* enrichment, email pattern matching, each only when the job type (and for
\* pattern matching the setting) allows it: whenever the task leaves a phase
\* without an exception, what it starts is the next applicable phase, or the
\* completion of the job when no applicable phase is left.
C12_PhaseOrder ==
    [][\A j \in JobIds :
          (PhaseOf(j)' # PhaseOf(j) /\ pc'[j] \notin {"h_cancel", "h_fail", "killed"})
              => PhaseOf(j)' = NextPhase(j, PhaseOf(j))]_vars

\* the start entries of the phases in the log of job j
PhaseLogs(j) ==
    logs[j] \cap {"Starting discovery phase", "Starting data enrichment",
                  "Starting contact enrichment phase", "Starting email pattern matching"}

\* a full job with pattern matching enabled has completed, and the start
\* entries in its log are those of discovery, contact enrichment and pattern
\* matching, without data enrichment
C12_Witness ==
    \E j \in JobIds :
        /\ pc[j] = "done" /\ status[j] = "completed"
        /\ config[j].job_type = "full" /\ config[j].patterns
        /\ PhaseLogs(j) = {"Starting discovery phase", "Starting contact enrichment phase",
                           "Starting email pattern matching"}

\* ------------------------------------------- properties of the status check
\* the awaits at which the task calls _check_job_status before a unit of work
CheckPcs == {"i_check", "q_check", "g_check", "ds_check", "di_check", "r_check",
             "de_check", "e_check", "p_check"}

\* C13: while the status of a job is paused its task starts no new unit of
\* work: a status check that runs while the stored status is paused sends the
\* task polling (or ends it as cancelled).  A polling task goes on to the
\* next unit only when the status is running again, and otherwise leaves the
\* poll only to end as cancelled.
C13_PausedStartsNoUnit ==
    [][\A j \in JobIds :
          /\ (pc[j] \in CheckPcs /\ status[j] = "paused" /\ pc'[j] # pc[j])
                => pc'[j] \in {"poll", "h_cancel"}
          /\ (pc[j] = "poll" /\ pc'[j] # "poll")
                => IF pc'[j] = L(j).ret THEN status[j] = "running"
                   ELSE pc'[j] = "h_cancel"]_vars

\* ------------------------------------------- properties of the process start
\* C14: at process start the recovery routine runs: the startup leaves every
\* job that was running or pending in status failed, and every job that was
\* paused, completed, failed or cancelled in the status it had.
C14_StartupRecovery ==
    [][(~up /\ up') => \A j \in JobIds : status'[j] = StaleCleaned(status[j])]_vars

\* ------------------------------------------- properties of the task registry
\* C15: at most one pipeline task exists per job id.  The registry holds a
\* job id exactly while the job has a task: the entry is inserted when the
\* task is created and removed when the task finishes, however it ends; and
\* no start creates a task for a job that has one.
C15_OneTaskPerJob ==
    /\ [](\A j \in JobIds : j \in activeJobs <=> Alive(j))
    /\ [][\A j \in JobIds :
             (pc'[j] = "created" /\ pc[j] # "created")
                 => (~Alive(j) /\ j \notin activeJobs /\ j \in activeJobs')]_vars

\* engine.start_job was called for a job that was in the registry; the one
\* task of the job has completed and the registry is empty again
C15_Witness ==
    \E j \in JobIds :
        /\ hist[j].startActive
        /\ pc[j] = "done"
        /\ status[j] = "completed"
        /\ activeJobs = {}

\* ------------------------------------------- properties of the key manager
\* C16: get_key never returns a key whose index is marked exhausted: it
\* returns a key that is not exhausted whenever there is one, and the empty
\* string when all keys are exhausted or none is configured.
C16_GetKeyNeverExhausted ==
    [][op' = "get_key" =>
          IF nKeys = 0 \/ ActiveKeys(exhausted') = 0
          THEN got' = NoKey
          ELSE got' # NoKey /\ IndexOf(got') \notin exhausted']_vars

\* C17: once every configured key is marked exhausted, no component sends
\* another request to the search API until the key manager is reset.
C17_NoRequestWhenExhausted ==
    [][nposts' > nposts => ActiveKeys(exhausted') > 0]_vars

\* the step in which caller c receives the response to its request
ResponseStep(c) == call[c].pc = "posting" /\ call'[c] # call[c]

\* C18: serper_search marks the current key exhausted only when the response
\* is 403, 429 or a 400 with the credit indicator; on any other failure it
\* returns none and leaves the exhausted set and the current index as they
\* are.
C18_MarksOnlyOnQuota ==
    [][\A c \in Callers :
          (ResponseStep(c) /\ call'[c].resp \notin {"400credit", "403", "429"})
              => /\ exhausted' = exhausted
                 /\ keyIndex' = keyIndex
                 /\ call'[c].pc = "idle"
                 /\ call'[c].resp # "200" => call'[c].result = "none"]_vars

\* C19: after a quota or auth error serper_search retries at most once, with
\* the next key that is not exhausted and with the same request (query,
\* result count, locale and location); when no key is left it returns none
\* without a further request.
C19_OneRetrySameRequest ==
    [][\A c \in Callers :
          (ResponseStep(c) /\ call'[c].resp \in {"400credit", "403", "429"}) =>
              /\ call'[c].pc = "posting" =>
                    /\ call'[c].retries <= 1
                    /\ call'[c].cur = call'[c].req
                    /\ IndexOf(call'[c].key) \notin exhausted'
              /\ ActiveKeys(exhausted') = 0 =>
                    /\ nposts' = nposts
                    /\ call'[c].pc = "idle"
                    /\ call'[c].result = "none"]_vars

\* ------------------------------------------- properties of HttpClient.get
\* the attempts of a call: no GET when robots
\* disallows the URL; none right after a 403, 404 or 410 response; at most
\* max_retries attempts, a further attempt only after a request error, a
\* timeout or another error status, with one backoff wait between two
\* consecutive attempts; the call returns the 2xx response or none
GetAttempts ==
    /\ ~http.allowed => http.gets = 0
    /\ http.last \in {"403", "404", "410"} => (http.pc = "done" /\ http.result = "none")
    /\ http.gets <= http.max_retries
    /\ http.waits <= http.gets /\ http.gets <= http.waits + 1
    /\ http.pc = "get" => http.waits = http.gets
    /\ (http.pc = "backoff" \/ (http.pc = "get" /\ http.gets > 0))
          => http.last \in {"429", "500", "request_error", "timeout"}
    /\ (http.pc = "done" /\ http.result # "raised") =>
          IF http.last = "200" THEN http.result = "response" ELSE http.result = "none"

\* C20 as stated: HttpClient.get returns a response or none and never raises,
\* and its attempts are as above.
C20_GetNeverRaises ==
    /\ http.result # "raised"
    /\ GetAttempts

\* ------------------------------------------- properties of the two gates
\* the callers that have taken a token for domain d and have not finished
\* their jitter sleep
InJitter(d) == {c \in GateClients : gate.pc[c] = "jitter" /\ gate.dom[c] = d}

\* C21: for each domain the callers of the rate gate serialize, callers of
\* different adapters or jobs included: at most one caller at a time is
\* between taking a token and the end of its jitter sleep, and every bucket
\* holds between 0 and capacity tokens.
C21_CallersSerialize ==
    /\ \A d \in GateDomains : Cardinality(InJitter(d)) <= 1
    /\ \A c \in GateClients : \A d \in GateDomains :
          gate.tokens[c][d] \in 0 .. TokenUnits

\* C22: every GET the system sends to a target site (profile pages, landing
\* pages, contact/about/team pages, each retry attempt) comes after a rate
\* gate acquire and, the robots gate being enabled, after a robots.txt
\* permission check for its URL.
C22_GetBehindGates ==
    \A g \in gate.issued : g.acquired /\ (gate.respect => g.checked)

\* C23: robots.txt of a domain is fetched at most once in a window of 24
\* hours, also with several is_allowed calls in flight; a failed or non-200
\* fetch caches allow-all, and is_allowed then returns true.
C23_RobotsFetchedOnce ==
    /\ \A d \in GateDomains : gate.fetches[d] <= 1
    /\ \A c \in GateClients :
          gate.reply[c] \in {"non200", "error"} =>
             /\ gate.cache[c][gate.dom[c]] = "allow_all"
             /\ gate.checked[c]

\* ------------------------------------------- properties of a discovery run
\* C24: in every reachable state of a discovery run the persisted
\* processed_urls is at least the persisted companies_found, and every
\* Company row the run inserted has a non-empty domain that no other row has.
C24_ProcessedCoversFound ==
    \A j \in JobIds :
        /\ counters[j].processed_urls >= counters[j].companies_found
        /\ \A c \in JobRows(j) :
              /\ c.domain # ""
              /\ \A o \in companies : o.domain = c.domain => o = c

\* the run has ended after a result without a domain was processed and a
\* company was found and stored
C24_Witness ==
    \E j \in JobIds :
        /\ ~Alive(j) /\ status[j] = "completed"
        /\ "" \in config[j].web
        /\ counters[j].processed_urls > counters[j].companies_found
        /\ counters[j].companies_found > 0
        /\ JobRows(j) # {}

\* ------------------------------------------- properties of the email guesses
JaneDoe == fn.first_name = <<"J", "a", "n", "e">> /\ fn.last_name = <<"D", "o", "e">>
JDoeAtAcme == Address(<<"j", ".", "d", "o", "e">>, "acme.com")

\* C25: the address assigned to a contact that lacked one is not an address
\* already stored for another contact of the company; for Jane Doe at
\* acme.com with the known sibling j.doe@acme.com the assigned address is not
\* j.doe@acme.com and its confidence is below 70.
C25_GuessIsNotAKnownEmail ==
    fn.pc = "assigned" =>
        /\ \A i \in DOMAIN fn.known_emails : fn.known_emails[i] # fn.email
        /\ (JaneDoe /\ fn.known_emails = <<JDoeAtAcme>>) =>
              (fn.email # JDoeAtAcme /\ fn.confidence < 70)

\* C26: generate_email_candidates returns the empty list when the contact
\* lacks a first name or a last name, and the list it returns is ordered by
\* non-increasing confidence.
C26_CandidatesOrdered ==
    fn.pc \in {"assign", "assigned", "left"} =>
        /\ (fn.first_name = <<>> \/ fn.last_name = <<>>) => fn.candidates = <<>>
        /\ \A i, k \in DOMAIN fn.candidates :
              i < k => fn.candidates[i].conf >= fn.candidates[k].conf

\* ------------------------------------------- properties of the enrichment
\* C27: enrich_company makes at most two searches for a company: the
\* comprehensive one, then exactly one more if and only if revenue, location
\* or employee count is missing after the first, and that one names the
\* missing categories only; there is no third.
C27_AtMostTwoSearches ==
    /\ fn.pc \in {"has_keys", "first"} => fn.queries = <<>>
    /\ fn.pc = "missing" => fn.queries = <<Comprehensive>>
    /\ (fn.pc = "returned" /\ ~fn.has_keys) => fn.queries = <<>>
    /\ (fn.pc = "returned" /\ fn.has_keys) =>
          IF \E f \in CriticalSet : fn.after_first[f] = ""
          THEN /\ Len(fn.queries) = 2
               /\ fn.queries[1] = Comprehensive
               /\ {fn.queries[2][i] : i \in DOMAIN fn.queries[2]}
                     = {Term(f) : f \in {g \in CriticalSet : fn.after_first[g] = ""}}
          ELSE fn.queries = <<Comprehensive>>

\* the call has returned after a second search that named the one category
\* the first search had left missing
C27_Witness ==
    /\ fn.pc = "returned"
    /\ Len(fn.queries) = 2
    /\ Len(fn.queries[2]) = 1

\* C28: a merge never changes a field that held a non-empty value: neither
\* the merge of enrichment data into a company nor the merge of the
\* company's page into the draft of a directory adapter.
C28_MergeKeepsKnownValues ==
    fn.pc = "merged" =>
        \A f \in DOMAIN fn.before : fn.before[f] # "" => fn.company[f] = fn.before[f]

\* ------------------------------------- properties of the company sites
\* the host of a domain is the site d or below it, whatever port it names
OnSite(dom, d) ==
    /\ Len(dom.labels) >= Len(d)
    /\ SubSeq(dom.labels, Len(dom.labels) - Len(d) + 1, Len(dom.labels)) = d

\* C29: no company whose domain is on the public-company denylist is ever
\* saved, whichever adapter found it.
C29_NoPublicCompanySaved ==
    \A d \in fn.saved : ~IsPublicCompanyDomain(d)

\* C30: the scrape_company of a directory adapter returns none when no
\* external domain was resolved; the domain and website of a company it
\* returns are never on a directory site or a known social domain, nor on a
\* subdomain of one; and the official-website search is made only after
\* every cheaper step of the adapter has yielded no domain.
C30_DirectoryDomainIsExternal ==
    fn.adapter \in DirectoryAdapters =>
        /\ fn.pc \in {"company", "saved"} =>
              /\ fn.domain # NoDomain
              /\ \A d \in SOCIAL_DOMAINS :
                    ~OnSite(fn.domain, d) /\ ~OnSite(NetlocDomain(fn.website), d)
        /\ (fn.pc = "none" /\ fn.tried # <<>>) => fn.domain = NoDomain
        /\ \A i \in DOMAIN fn.tried :
              fn.tried[i].step = "search" =>
                  /\ {fn.tried[k].step : k \in 1..(i - 1)}
                        = IF fn.adapter = "kompass" THEN {"snippet", "page"} ELSE {"page"}
                  /\ \A k \in 1..(i - 1) : fn.tried[k].domain = NoDomain

\* ------------------------------------- properties of the location filter
NYC == <<"N", "Y", "C">>
NewYork == <<"N", "e", "w", " ", "Y", "o", "r", "k">>

FiftyMillion == <<"$", "5", "0", "M">>

QuotaOrAuth == {"400credit", "403", "429"}

\* C35: an index enters the exhausted set only when a search request that
\* was sent with the key at that index has received a quota or
\* authorisation error; two concurrent searches that used the same key and
\* both fail exhaust that key alone.
C35_ExhaustsTheKeyUsed ==
    [][op' = "response" =>
          \A i \in exhausted' \ exhausted :
              \E c \in Callers :
                  /\ call[c].pc = "posting"
                  /\ call[c].key = KeyAt(i)
                  /\ call'[c].resp \in QuotaOrAuth
                  /\ call'[c] # call[c]]_vars

\* -------------------------------- properties of the post-save location filter
Ids(rows) == {c.id : c \in rows}

\* C36: a discovery job deletes, enriches after saving and counts in
\* companies_found only a Company row that it has itself inserted in that
\* step: a row that was there before, inserted earlier or concurrently by
\* another job, is never deleted, enriched again or counted by this job.
C36_FilterTouchesOwnInsert ==
    [][\A j \in JobIds :
          /\ (pc[j] = "c_loc" /\ pc'[j] # pc[j] /\ Ids(companies') # Ids(companies)) =>
                /\ Ids(companies) \ Ids(companies') = {loc[j].saved}
                /\ loc[j].inserted
                /\ Row(loc[j].saved).job = j
          /\ (pc[j] = "c_create" /\ pc'[j] = "c_enrich") => loc'[j].inserted
          /\ loc'[j].found > loc[j].found => loc[j].inserted]_vars

\* --------------------------------------------------- termination of a job
StartedJob(j) == pc[j] # "none"

Orphaned(j) == StartedJob(j) /\ ~Alive(j) /\ status[j] \in {"running", "pending"}

\* C37: under the scheduling of SpecLive every job whose start succeeded
\* reaches one of the statuses completed, failed and cancelled, and a job
\* whose task is no longer alive does not stay in status running or pending.
C37_JobTerminates ==
    \A j \in PauseJobs :
        /\ StartedJob(j) ~> (status[j] \in Terminal)
        /\ Orphaned(j) ~> ~Orphaned(j)

\* ------------------------------------------- the persisted progress counters
CounterNames == DOMAIN ZeroCounters

\* C38: during a run no step lowers a persisted progress counter of a job:
\* each of total_urls, processed_urls, companies_found, contacts_found and
\* errors_count is after every update at least what it was before it.
C38_CountersNeverDecrease ==
    [][\A j \in DiscJobs : \A c \in CounterNames :
          counters'[j][c] >= counters[j][c]]_vars

C38_Witness ==
    \E j \in DiscJobs :
        /\ counters[j].processed_urls >= 3
        /\ counters[j].companies_found >= 1
        /\ counters[j].errors_count >= 1

\* C39: in every state of a run the persisted processed_urls of a job is at
\* most its persisted total_urls, so that the progress the router reports
\* is at most 100 percent: each discovered URL is counted once as processed.
C39_ProcessedWithinTotal ==
    \A j \in DiscJobs : counters[j].processed_urls <= counters[j].total_urls

\* ------------------------------------------------ contacts without an email
\* the contact the batch loop of task j is at
BatchContact(j) == loc[j].batch[loc[j].bi]

\* a row of the contact's company carries its name and no email
NamedRow(rows, c) ==
    \E x \in rows : x.company = c.company /\ x.name = c.name /\ x.email \in {"", NULL}

\* C40: a contact extracted without an email address is stored whatever other
\* contacts without an email its company has: the insert of such a contact,
\* unless a row of its own name is there already, adds its row.
C40_EmailLessContactsStored ==
    [][\A j \in PipeJobs :
          (InsertStep(j) /\ BatchContact(j).email = "" /\ ~NamedRow(contacts, BatchContact(j)))
              => NamedRow(contacts', BatchContact(j))]_vars

====
